---- MODULE Spec2Model ----
(***************************************************************************)
(* devlama: the sandbox that analyses, provisions and executes generated   *)
(* Python code.                                                            *)
(*                                                                         *)
(* Spec models one caller that repeatedly invokes one of                   *)
(*   - PythonSandbox.run_code          (src/sandbox/python_sandbox.py)     *)
(*   - DockerSandbox.execute_code      (src/sandbox.py)                    *)
(*   - DependencyManager.install_dependencies (src/DependencyManager.py)   *)
(*   - main, from the dependency check on   (src/pylama.py)                *)
(* Every invocation is a sequential flow; pc is its position.  The         *)
(* installed-package registry and the long-lived container outlive the     *)
(* invocations.                                                            *)
(*                                                                         *)
(* StartSpec models several callers of DockerSandbox.start_container and   *)
(* stop_container, InstallSpec several callers of install_dependencies;    *)
(* their steps interleave.                                                 *)
(***************************************************************************)
EXTENDS Integers, Sequences, FiniteSets, TLC

VARIABLES
    flow,              \* which entry point the current invocation is
    pc,                \* position of the invocation
    code,              \* the submitted source: [imports, parse, encodable]
    packages,          \* argument of install_dependencies
    missing_packages,  \* dependencies_result['missing_packages']
    unique_packages,   \* install_dependencies: the deduplicated list
    idx,               \* position of the running install loop
    allOk,             \* install_dependencies: the local `success`
    pipCalls,          \* names handed to the package manager, in order
    registry,          \* installed packages, lower-cased names
    tempFile,          \* the temporary code file: none | exists | removed
    proc,              \* the child process of subprocess.run
    cproc,             \* the interpreter running this invocation's script in the container
    containerRunning,  \* docker ps shows the sandbox container
    exitCode,          \* exit code of the executed code ("0", "1"), "none" before it exits
    raisedIn,          \* the exception the run met, "none" if none
    execCount,         \* Execute steps (spawns of the submitted code)
    result,            \* the value returned to the caller
    pipRuns,           \* package-manager processes started by the invocation
    runtime,           \* the container runtime: ok | no_daemon | no_cli
    installed,         \* check_dependencies: the modules found installed
    pipOutcomes,       \* whether each package handed to the package manager got installed
    starter,           \* start_container / stop_container, per concurrent caller
    containers,        \* running containers named container_name
    imagePresent,      \* docker image inspect finds the image
    envFault,          \* a docker command has failed for a reason outside the callers
    stopped,           \* the container has been stopped or has exited
    installer,         \* install_dependencies, per concurrent caller
    site_packages,     \* what the concurrent installers have installed
    source,            \* the source handed to the analyzers, a statement per line
    loaded,            \* sys.modules of the host process (beyond the interpreter's own)
    analyzer,          \* std_lib_modules of each CodeAnalyzer instance, "none" before it is built
    analysis,          \* what analyze_code of each instance returned for source
    extracted,         \* what extract_imports returned for source
    environ,           \* os.environ["USE_DOCKER"]
    call,              \* execute_code: position, arguments, USE_DOCKER as read, sandbox made
    created,           \* the sandboxes execute_code has made, in order
    runCalls,          \* the calls of sandbox.run, in order
    runResult,         \* what sandbox.run returned
    returned,          \* what execute_code returned
    runner,            \* the OllamaRunner: use_docker, ollama_process, how its last call ended
    server,            \* the Ollama server: "down", "own" or "external"
    container,         \* the Ollama container: "down", "own" or "external"
    spawned,           \* how many times the runner has spawned "ollama serve"
    session,           \* interactive_mode: position, current model and template
    user_input,        \* the line interactive_mode read last, as its words
    handled,           \* the branch that handled it
    prompts,           \* the inputs handed to generate_code
    diag,              \* run_diagnostic: position, number of examples, loop index
    results,           \* results of run_diagnostic
    sandboxRuns,       \* the executions the sandbox did for run_diagnostic
    processed,         \* the examples run_diagnostic has processed, in order
    status,            \* what run_diagnostic returned
    svc,               \* per service: the process its PID file names, the PID file, the processes table, orphans
    lastCall,          \* the last start_service or stop_service call and what it found
    eco,               \* start_ecosystem / stop_ecosystem in progress: components and services left to visit
    startOrder,        \* the services the last start_ecosystem started, in order
    stopOrder,         \* the services the last stop_ecosystem stopped, in order
    attempt,           \* run_code_with_debug: where it is, what the code did, queries sent, fixed code runs, return value
    mainrun,           \* main(): the step it is at, whether the OllamaRunner exists, how it left the try block, stop_ollama calls
    manager,           \* the SandboxManager: use_docker, whether it holds a DockerSandbox, the USE_DOCKER it was built from
    managerRuns,       \* the run_code and get_sandbox calls on the manager: the argument and the backend chosen
    selection          \* per reader of USE_DOCKER: the value it read last and whether it selected the container

vars == <<flow, pc, code, packages, missing_packages, unique_packages, idx,
          allOk, pipCalls, registry, tempFile, proc, cproc, containerRunning,
          exitCode, raisedIn, execCount, result, pipRuns, runtime, installed,
          pipOutcomes>>

\* The state of the concurrent callers of start_container and stop_container.
startVars == <<starter, containers, imagePresent, envFault, stopped>>

\* The state of the concurrent callers of install_dependencies.
installVars == <<installer, site_packages>>

\* The state of the analyzers.
analyzerVars == <<source, loaded, analyzer, analysis, extracted>>

\* The state of execute_code.
execVars == <<environ, call, created, runCalls, runResult, returned>>

\* The state of the OllamaRunner and of what it starts.
runnerVars == <<runner, server, container, spawned>>

\* The state of interactive_mode.
interactiveVars == <<session, user_input, handled, prompts>>

\* The state of run_diagnostic.
diagnoseVars == <<diag, results, sandboxRuns, processed, status>>

\* The state of the ecosystem: its services and the call in progress.
ecoVars == <<svc, lastCall, eco, startOrder, stopOrder>>

\* The state of one run_code_with_debug call.
debugVars == <<attempt>>

\* The state of one main() call of pylama.py.
mainVars == <<mainrun>>

\* The state of a SandboxManager and of the readers of USE_DOCKER.
managerVars == <<manager, managerRuns, selection>>

\* What a sequential invocation leaves alone.
concurrentVars ==
    <<startVars, installVars, analyzerVars, execVars, runnerVars, interactiveVars,
      diagnoseVars, ecoVars, debugVars, mainVars, managerVars>>

\* What the callers of start_container and stop_container leave alone.
outsideStart ==
    <<vars, installVars, analyzerVars, execVars, runnerVars, interactiveVars,
      diagnoseVars, ecoVars, debugVars, mainVars, managerVars>>

\* What the callers of install_dependencies leave alone.
outsideInstall ==
    <<vars, startVars, analyzerVars, execVars, runnerVars, interactiveVars,
      diagnoseVars, ecoVars, debugVars, mainVars, managerVars>>

\* What the analyzers leave alone.
outsideAnalyzer ==
    <<vars, startVars, installVars, execVars, runnerVars, interactiveVars,
      diagnoseVars, ecoVars, debugVars, mainVars, managerVars>>

\* What execute_code leaves alone.
outsideExec ==
    <<vars, startVars, installVars, analyzerVars, runnerVars, interactiveVars,
      diagnoseVars, ecoVars, debugVars, mainVars, managerVars>>

\* What the OllamaRunner leaves alone.
outsideRunner ==
    <<vars, startVars, installVars, analyzerVars, execVars, interactiveVars,
      diagnoseVars, ecoVars, debugVars, mainVars, managerVars>>

\* What interactive_mode leaves alone.
outsideInteractive ==
    <<vars, startVars, installVars, analyzerVars, execVars, runnerVars, diagnoseVars,
      ecoVars, debugVars, mainVars, managerVars>>

\* What run_diagnostic leaves alone.
outsideDiagnose ==
    <<vars, startVars, installVars, analyzerVars, execVars, runnerVars,
      interactiveVars, ecoVars, debugVars, mainVars, managerVars>>

\* What the ecosystem leaves alone.
outsideEco ==
    <<vars, startVars, installVars, analyzerVars, execVars, runnerVars,
      interactiveVars, diagnoseVars, debugVars, mainVars, managerVars>>

\* What run_code_with_debug leaves alone.
outsideDebug ==
    <<vars, startVars, installVars, analyzerVars, execVars, runnerVars,
      interactiveVars, diagnoseVars, ecoVars, mainVars, managerVars>>

\* What main() leaves alone.
outsideMain ==
    <<vars, startVars, installVars, analyzerVars, execVars, runnerVars,
      interactiveVars, diagnoseVars, ecoVars, debugVars, managerVars>>

\* What the SandboxManager and the readers of USE_DOCKER leave alone.
outsideManager ==
    <<vars, startVars, installVars, analyzerVars, execVars, runnerVars,
      interactiveVars, diagnoseVars, ecoVars, debugVars, mainVars>>

allVars ==
    <<vars, startVars, installVars, analyzerVars, execVars, runnerVars,
      interactiveVars, diagnoseVars, ecoVars, debugVars, mainVars, managerVars>>

(***************************************************************************)
(* Bounds of the model.                                                    *)
(***************************************************************************)
MaxPkgs == 2    \* longest list handed to install_dependencies
MaxExec == 5    \* cap on the Execute counter (the code itself stops at 1)

(***************************************************************************)
(* The retry ceiling named by the design; no line of the code sets it.     *)
(***************************************************************************)
max_attempts == 3

(***************************************************************************)
(* Names.                                                                  *)
(***************************************************************************)
Modules == {"os", "sqlite3", "sklearn", "nonexistent_pkg_xyz"}

PkgArgs == {"PIL", "Image", "numpy", "sklearn"}

NoResult ==
    [kind |-> "none", success |-> FALSE, stdout |-> "", stderr |-> "",
     error_type |-> "absent", exit_code |-> "absent"]

\* str.lower() on the names the model uses.
Lower(p) ==
    CASE p = "Pillow" -> "pillow"
      [] p = "PIL"    -> "pil"
      [] p = "Image"  -> "image"
      [] p = "True"   -> "true"
      [] p = "TRUE"   -> "true"
      [] p = "False"  -> "false"
      [] p = "YES"    -> "yes"
      [] p = "QUIT"   -> "quit"
      [] OTHER        -> p

\* Mutant: every name is its own package.
PACKAGE_MAPPING_identity(pkg) == pkg

\* DependencyManager.PACKAGE_MAPPING.get(pkg, pkg)
PACKAGE_MAPPING(pkg) ==
    CASE pkg = "PIL"     -> "pillow"
      [] pkg = "sklearn" -> "scikit-learn"
      [] pkg = "Image"   -> "Pillow"
      [] OTHER           -> pkg

\* CodeAnalyzer.std_lib_modules, restricted to Modules: the builtin module
\* names, the modules loaded when the analyzer is constructed and the list of
\* _add_standard_libraries.  sqlite3 is in none of the three.
std_lib_modules == {"os"}

\* The modules of Modules that the interpreter's standard library provides.
StandardLibrary == {"os", "sqlite3"}

\* What the package index can deliver.
Installable(p) == p # "nonexistent_pkg_xyz"

RECURSIVE SeqsUpTo(_, _)
SeqsUpTo(S, n) ==
    IF n = 0 THEN {<<>>}
    ELSE LET shorter == SeqsUpTo(S, n - 1)
         IN  shorter \cup {Append(s, x) : s \in {t \in shorter : Len(t) = n - 1}, x \in S}

Range(s) == {s[i] : i \in 1..Len(s)}

PackageOrder == <<"os", "sqlite3", "numpy", "scikit-learn", "nonexistent_pkg_xyz">>

InOrder(S) == SelectSeq(PackageOrder, LAMBDA p : p \in S)

\* What import finds: a module of the standard library, or one whose package
\* is installed.
Importable(m, reg) == m \in StandardLibrary \/ Lower(PACKAGE_MAPPING(m)) \in reg

\* CodeAnalyzer._classify_module: the table first, then importlib's find_spec.
_classify_module(module_name, reg) ==
    CASE module_name \in std_lib_modules -> "standard_library"
      [] Importable(module_name, reg)    -> "third_party"
      [] OTHER                           -> "unknown"

\* Mutant: every import is reported as required, whatever its class.
required_packages_unclassified(c) ==
    IF c.parse = "ok" THEN c.imports ELSE {}

(***************************************************************************)
(* CodeAnalyzer.analyze_code: the imports of a source that parses, none    *)
(* for a source on which ast.parse raises (both except branches return     *)
(* empty lists); required_packages are third_party_imports +               *)
(* unknown_imports, the imports that are not classified standard_library,  *)
(* whatever the installed packages are.                                    *)
(***************************************************************************)
required_packages(c) ==
    IF c.parse = "ok"
    THEN {m \in c.imports : _classify_module(m, {}) # "standard_library"}
    ELSE {}

(***************************************************************************)
(* The sandbox package's DependencyManager.analyze_dependencies: the       *)
(* mapped names of the required modules, deduplicated, minus those that    *)
(* check_package_installed finds (it finds os and sys, which no package    *)
(* registry lists: an import lookup).                                      *)
(***************************************************************************)
analyze_dependencies(c, reg) ==
    InOrder({PACKAGE_MAPPING(m) : m \in {r \in required_packages(c) : ~Importable(r, reg)}})

\* The modules the interpreter cannot import when the code runs.
Unimportable(c, reg) ==
    {m \in required_packages(c) : ~Importable(m, reg)}

(***************************************************************************)
(* Results.  A key the code leaves out of the returned value is "absent".  *)
(* stdout is "" or "captured" (what the process wrote); stderr is the      *)
(* process's own ("captured", or "no_module" when it is the traceback of   *)
(* ModuleNotFoundError: No module named ...) or one of the code's          *)
(* messages.                                                               *)
(***************************************************************************)
\* python_sandbox.py, the return of a parse failure.
SyntaxErrorResult ==
    [kind |-> "dict", success |-> FALSE, stdout |-> "", stderr |-> "syntax_msg",
     error_type |-> "SyntaxError", exit_code |-> "absent"]

\* Mutant: success does not look at the exit code.
LocalCompletedAlwaysSuccess(rc, err) ==
    [kind |-> "dict", success |-> TRUE, stdout |-> "captured", stderr |-> err,
     error_type |-> "absent", exit_code |-> rc]

\* python_sandbox.py, the return after subprocess.run.
LocalCompleted(rc, err) ==
    [kind |-> "dict", success |-> (rc = "0"), stdout |-> "captured", stderr |-> err,
     error_type |-> "absent", exit_code |-> rc]

\* Mutant: the timeout falls into the generic handler (except Exception
\* placed before except subprocess.TimeoutExpired).
LocalTimeoutGeneric ==
    [kind |-> "dict", success |-> FALSE, stdout |-> "", stderr |-> "exc_msg",
     error_type |-> "TimeoutExpired", exit_code |-> "absent"]

\* python_sandbox.py, except subprocess.TimeoutExpired.
LocalTimeout ==
    [kind |-> "dict", success |-> FALSE, stdout |-> "", stderr |-> "timeout_msg",
     error_type |-> "TimeoutError", exit_code |-> "absent"]

\* python_sandbox.py, except Exception: error_type is type(e).__name__.
LocalException(e) ==
    [kind |-> "dict", success |-> FALSE, stdout |-> "", stderr |-> "exc_msg",
     error_type |-> e, exit_code |-> "absent"]

\* sandbox.py execute_code returns the tuple (success, stdout, stderr).
DockerCompleted(rc, err) ==
    [kind |-> "tuple", success |-> (rc = "0"), stdout |-> "captured", stderr |-> err,
     error_type |-> "absent", exit_code |-> "absent"]

DockerTimeout ==
    [kind |-> "tuple", success |-> FALSE, stdout |-> "", stderr |-> "timeout_msg",
     error_type |-> "absent", exit_code |-> "absent"]

\* except subprocess.CalledProcessError: e.stdout or "", e.stderr or "Nieznany blad"
DockerCalledProcessError ==
    [kind |-> "tuple", success |-> FALSE, stdout |-> "", stderr |-> "unknown_err",
     error_type |-> "absent", exit_code |-> "absent"]

DockerException ==
    [kind |-> "tuple", success |-> FALSE, stdout |-> "", stderr |-> "exc_msg",
     error_type |-> "absent", exit_code |-> "absent"]

(***************************************************************************)
(* Init: nothing has been invoked; nothing is installed; no container.     *)
(***************************************************************************)
\* The concurrent callers.
Callers == {"t1", "t2"}

\* A caller that has not called start_container or stop_container.
NotStarting == [pc |-> "idle", op |-> "none", result |-> "none", sawRunning |-> FALSE, ran |-> FALSE]

\* A caller that has not called install_dependencies.
NotInstalling == [pc |-> "idle", unique_packages |-> <<>>, idx |-> 1, success |-> TRUE]

\* The CodeAnalyzer instances.
Analyzers == {"a1", "a2"}

\* analyze_code has not been called.
NoImports == [n \in {} |-> "unknown"]
NoAnalysis == [done |-> FALSE, error |-> FALSE, imports |-> NoImports,
               standard_library |-> <<>>, third_party |-> <<>>, unknown |-> <<>>,
               required_packages |-> <<>>]

\* CodeAnalyzer() has not been called; extract_imports has not been called.
NotBuilt == [built |-> FALSE, std_lib_modules |-> {}]
NotExtracted == [done |-> FALSE, modules |-> {}]

\* DEFAULT_PORTS.keys()
Services == {"pybox", "pyllm", "shellama", "apilama", "pylama", "weblama"}

\* A service never started: no process, no PID file, not in processes.
NoService == [cur |-> "none", file |-> FALSE, inTable |-> FALSE, orphans |-> 0]

\* Neither start_service nor stop_service has been called.
NoCall == [op |-> "none", service |-> "none", hadFile |-> FALSE,
           readable |-> FALSE, unlinked |-> FALSE]

\* Neither start_ecosystem nor stop_ecosystem is in progress.
EcoIdle == [op |-> "idle", impl |-> "none", components |-> <<>>, queue |-> <<>>, calls |-> 0]

\* run_code_with_debug has not been called.
NoAttempt == [pc |-> "idle", impl |-> "none", returncode |-> "none", queries |-> 0,
              debug_response |-> "none", debugged_code |-> "", answer |-> <<>>,
              fixedRuns |-> 0, fixedOutcome |-> "none", ret |-> "none"]

\* main() has not been called.
NoMain == [pc |-> "idle", created |-> FALSE, use_docker |-> FALSE, server |-> "none",
           path |-> "none", left |-> "none", stops |-> 0, ended |-> "none"]

\* No SandboxManager has been built.
NoManager == [built |-> FALSE, use_docker |-> FALSE, docker_sandbox |-> FALSE,
              env |-> "none"]

\* The three readers of USE_DOCKER.
Readers == {"execute_code", "OllamaRunner", "from_env"}

\* USE_DOCKER has not been read.
NoRead == [env |-> "none", container |-> FALSE]

\* sandbox.run has not returned.
NoRunResult == [output |-> "", error |-> "not run"]

NoCode == [imports |-> {}, parse |-> "ok", encodable |-> TRUE]

Init ==
    /\ flow = "none"
    /\ pc = "idle"
    /\ code = NoCode
    /\ packages = <<>>
    /\ missing_packages = <<>>
    /\ unique_packages = <<>>
    /\ idx = 1
    /\ allOk = TRUE
    /\ pipCalls = <<>>
    /\ registry = {}
    /\ tempFile = "none"
    /\ proc = "none"
    /\ cproc = "none"
    /\ containerRunning = FALSE
    /\ exitCode = "none"
    /\ raisedIn = "none"
    /\ execCount = 0
    /\ result = NoResult
    /\ pipRuns = 0
    /\ runtime = "ok"
    /\ installed = {}
    /\ pipOutcomes = <<>>
    /\ starter = [c \in Callers |-> NotStarting]
    /\ containers = 0
    /\ imagePresent = FALSE
    /\ envFault = FALSE
    /\ stopped = FALSE
    /\ installer = [c \in Callers |-> NotInstalling]
    /\ site_packages = {}
    /\ source = <<>>
    /\ loaded = {}
    /\ analyzer = [a \in Analyzers |-> NotBuilt]
    /\ analysis = [a \in Analyzers |-> NoAnalysis]
    /\ extracted = NotExtracted
    /\ environ = "unset"
    /\ call = [pc |-> "idle", code |-> "", use_docker |-> FALSE, env |-> "unset", sandbox |-> "none"]
    /\ created = <<>>
    /\ runCalls = <<>>
    /\ runResult = NoRunResult
    /\ returned = NoRunResult
    /\ runner = [built |-> FALSE, use_docker |-> FALSE, ollama_process |-> "none", last |-> "init"]
    /\ server = "down"
    /\ container = "down"
    /\ spawned = 0
    /\ session = [pc |-> "none", model |-> "llama2", template |-> "platform_aware"]
    /\ user_input = <<>>
    /\ handled = "none"
    /\ prompts = {}
    /\ diag = [pc |-> "none", n |-> 0, i |-> 1]
    /\ results = <<>>
    /\ sandboxRuns = <<>>
    /\ processed = <<>>
    /\ status = "none"
    /\ svc = [s \in Services |-> NoService]
    /\ lastCall = NoCall
    /\ eco = EcoIdle
    /\ startOrder = <<>>
    /\ stopOrder = <<>>
    /\ attempt = NoAttempt
    /\ mainrun = NoMain
    /\ manager = NoManager
    /\ managerRuns = <<>>
    /\ selection = [r \in Readers |-> NoRead]

\* The caller may invoke when no invocation is in progress.
CanInvoke == pc \in {"idle", "returned", "raised"}

\* The per-invocation state at the entry of an invocation.
Enter(f, p, c, pk) ==
    /\ flow' = f
    /\ pc' = p
    /\ code' = c
    /\ packages' = pk
    /\ missing_packages' = <<>>
    /\ unique_packages' = <<>>
    /\ idx' = 1
    /\ allOk' = TRUE
    /\ pipCalls' = <<>>
    /\ tempFile' = "none"
    /\ proc' = "none"
    /\ cproc' = "none"
    /\ exitCode' = "none"
    /\ raisedIn' = "none"
    /\ execCount' = 0
    /\ result' = NoResult
    /\ pipRuns' = 0
    /\ installed' = {}
    /\ pipOutcomes' = <<>>
    /\ UNCHANGED <<registry, concurrentVars>>

(***************************************************************************)
(* One call of the package manager for package p: pip install p.           *)
(* It fails for a package the index does not have, and may fail for any.   *)
(***************************************************************************)
Pip(p, ok) ==
    /\ ok => Installable(p)
    /\ pipCalls' = Append(pipCalls, p)
    /\ pipRuns' = pipRuns + 1
    /\ pipOutcomes' = Append(pipOutcomes, ok)
    /\ registry' = IF ok THEN registry \cup {Lower(p)} ELSE registry

(***************************************************************************)
(* PythonSandbox.run_code                                                  *)
(***************************************************************************)
\* run_code is entered with a source: its imports, what ast.parse does with
\* it (accepts it, raises SyntaxError, raises another exception such as
\* UnicodeEncodeError for a lone surrogate) and whether the locale encoding of
\* the host can encode it.
RunCode(imps, parse, enc) ==
    /\ CanInvoke
    /\ parse # "ok" => imps = {} /\ enc
    /\ Enter("local", "analyze", [imports |-> imps, parse |-> parse, encodable |-> enc], <<>>)
    /\ UNCHANGED <<containerRunning, runtime>>

\* dependencies_result = self.dependency_manager.analyze_dependencies(code)
Analyze ==
    /\ pc = "analyze"
    /\ missing_packages' = analyze_dependencies(code, registry)
    /\ pc' = "parse"
    /\ UNCHANGED <<concurrentVars, runtime, installed, pipOutcomes, pipRuns, flow, code, packages, unique_packages, idx, allOk, pipCalls,
                   registry, tempFile, proc, cproc, containerRunning, exitCode,
                   raisedIn, execCount, result>>

\* Mutant: the parse check does not return.
AfterParseUnchecked(parse) == "mktemp"

\* try: ast.parse(code) / except SyntaxError: return {...}; any other
\* exception of ast.parse leaves run_code; otherwise _run_locally is entered.
AfterParse(parse) ==
    CASE parse = "syntax" -> "returned"
      [] parse = "other"  -> "raised"
      [] OTHER            -> "mktemp"

ParseCheck ==
    /\ pc = "parse"
    /\ pc' = AfterParse(code.parse)
    /\ result' = IF code.parse = "syntax" THEN SyntaxErrorResult ELSE result
    /\ raisedIn' = IF code.parse = "other" THEN "parse" ELSE raisedIn
    /\ UNCHANGED <<concurrentVars, runtime, installed, pipOutcomes, pipRuns, flow, code, packages, missing_packages, unique_packages, idx,
                   allOk, pipCalls, registry, tempFile, proc, cproc,
                   containerRunning, exitCode, execCount>>

\* with tempfile.NamedTemporaryFile(suffix='.py', mode='w', delete=False):
\*     temp_file.write(code)
\* The block stands before the try: the file may fail to be created (nothing
\* exists), or be created and the write (or the flush at close) fail, which
\* it does for a source the locale encoding cannot encode and may do for any
\* (a full disk); either exception leaves run_code.
MakeTempFile(outcome) ==
    /\ pc = "mktemp"
    /\ ~code.encodable => outcome = "write_fails"
    /\ tempFile' = IF outcome = "create_fails" THEN "none" ELSE "exists"
    /\ pc' = IF outcome = "ok" THEN "install" ELSE "raised"
    /\ raisedIn' = IF outcome = "ok" THEN raisedIn ELSE "mktemp"
    /\ UNCHANGED <<concurrentVars, runtime, installed, pipOutcomes, pipRuns, flow, code, packages, missing_packages, unique_packages, idx,
                   allOk, pipCalls, registry, proc, cproc, containerRunning,
                   exitCode, execCount, result>>

\* for package in missing_packages: self.dependency_manager.install_package(package)
InstallPackage(ok) ==
    /\ pc = "install"
    /\ idx <= Len(missing_packages)
    /\ Pip(missing_packages[idx], ok)
    /\ idx' = idx + 1
    /\ UNCHANGED <<concurrentVars, runtime, installed, flow, pc, code, packages, missing_packages, unique_packages,
                   allOk, tempFile, proc, cproc, containerRunning, exitCode,
                   raisedIn, execCount, result>>

\* Mutant: the code is executed without waiting for the installs.
InstallsFinished_at_once(i, missing) == TRUE

\* The for loop over missing_packages has ended.
InstallsFinished(i, missing) == i > Len(missing)

InstallDone ==
    /\ pc = "install"
    /\ InstallsFinished(idx, missing_packages)
    /\ pc' = "execute"
    /\ UNCHANGED <<concurrentVars, runtime, installed, pipOutcomes, pipRuns, flow, code, packages, missing_packages, unique_packages, idx,
                   allOk, pipCalls, registry, tempFile, proc, cproc,
                   containerRunning, exitCode, raisedIn, execCount, result>>

\* subprocess.run([sys.executable, temp_file_path], ..., timeout=timeout): the
\* spawn.  Popen may raise OSError, which except Exception turns into a result.
Spawn(ok) ==
    /\ pc = "execute"
    /\ execCount < MaxExec
    /\ execCount' = execCount + 1
    /\ IF ok
       THEN /\ proc' = "running"
            /\ pc' = "running"
            /\ UNCHANGED <<result, raisedIn>>
       ELSE /\ proc' = "none"
            /\ pc' = "finally"
            /\ raisedIn' = "spawn"
            /\ result' = LocalException("OSError")
    /\ UNCHANGED <<concurrentVars, runtime, installed, pipOutcomes, pipRuns, flow, code, packages, missing_packages, unique_packages, idx,
                   allOk, pipCalls, registry, tempFile, cproc, containerRunning,
                   exitCode>>

\* Mutant: a missing-module failure installs and executes again, unbounded.
AfterExecuteRetry(err) == IF err = "no_module" THEN "install" ELSE "finally"

\* Mutant: a missing-module failure executes the code again, unbounded.
AfterExecuteAgain(err) == IF err = "no_module" THEN "execute" ELSE "finally"

\* What follows the return of subprocess.run: every branch returns, so the
\* finally block is next; err is the stderr the process left.
AfterExecute(err) == "finally"

\* The process ends by itself before the timeout.  A module the interpreter
\* cannot import ends it with code 1 and the ModuleNotFoundError traceback.
\* With text=True the captured bytes are decoded: output that is not valid
\* in the encoding raises UnicodeDecodeError out of subprocess.run, although
\* the process has exited.
ProcessExits(rc, decodes) ==
    /\ pc = "running"
    /\ flow = "local"
    /\ Unimportable(code, registry) # {} => rc = "1" /\ decodes
    /\ proc' = "exited"
    /\ exitCode' = rc
    /\ LET err == IF Unimportable(code, registry) # {} THEN "no_module" ELSE "captured"
       IN  IF decodes
           THEN /\ result' = LocalCompleted(rc, err)
                /\ pc' = AfterExecute(err)
                /\ UNCHANGED raisedIn
           ELSE /\ result' = LocalException("UnicodeDecodeError")
                /\ pc' = "finally"
                /\ raisedIn' = "decode"
    /\ UNCHANGED <<concurrentVars, runtime, installed, pipOutcomes, pipRuns, flow, code, packages, missing_packages, unique_packages, idx,
                   allOk, pipCalls, registry, tempFile, cproc, containerRunning,
                   execCount>>

\* The timeout expires first: subprocess.run kills the child (Popen.kill,
\* SIGKILL), waits for it and raises TimeoutExpired.
ProcessTimesOut ==
    /\ pc = "running"
    /\ flow = "local"
    /\ Unimportable(code, registry) = {}
    /\ proc' = "killed"
    /\ raisedIn' = "timeout"
    /\ result' = LocalTimeout
    /\ pc' = "finally"
    /\ UNCHANGED <<concurrentVars, runtime, installed, pipOutcomes, pipRuns, flow, code, packages, missing_packages, unique_packages, idx,
                   allOk, pipCalls, registry, tempFile, cproc, containerRunning,
                   exitCode, execCount>>

\* finally: os.unlink(temp_file_path), then the pending return.
Finally ==
    /\ pc = "finally"
    /\ tempFile' = "removed"
    /\ pc' = "returned"
    /\ UNCHANGED <<concurrentVars, runtime, installed, pipOutcomes, pipRuns, flow, code, packages, missing_packages, unique_packages, idx,
                   allOk, pipCalls, registry, proc, cproc, containerRunning,
                   exitCode, raisedIn, execCount, result>>

(***************************************************************************)
(* DockerSandbox.execute_code                                              *)
(***************************************************************************)
\* sandbox = DockerSandbox(); sandbox.execute_code(code), with the container
\* runtime in one of three conditions: working, the docker client installed
\* but the daemon not reachable, no docker client on the path.  Without a
\* reachable daemon docker ps lists no container.
ExecuteCode(rt) ==
    /\ CanInvoke
    /\ Enter("docker", "d_init", NoCode, <<>>)
    /\ runtime' = rt
    /\ containerRunning' = (containerRunning /\ rt = "ok")

\* _check_docker_installation: docker --version answers with code 0.  The
\* client answers it without the daemon.
CheckPasses(rt) == rt # "no_cli"

\* DockerSandbox.__init__: _check_docker_installation raises RuntimeError.
DockerInit ==
    /\ pc = "d_init"
    /\ pc' = IF CheckPasses(runtime) THEN "d_mktemp" ELSE "raised"
    /\ raisedIn' = IF CheckPasses(runtime) THEN raisedIn ELSE "setup"
    /\ UNCHANGED <<concurrentVars, runtime, installed, pipOutcomes, pipRuns, flow, code, packages,
                   missing_packages, unique_packages, idx, allOk, pipCalls,
                   registry, tempFile, proc, cproc, containerRunning, exitCode,
                   execCount, result>>

\* with tempfile.TemporaryDirectory() as temp_dir: open(script_path, 'w') ...
\* The directory may fail to be created; a failing write is inside the with
\* block, whose exit removes the directory; both exceptions leave execute_code.
DockerMakeTemp(outcome) ==
    /\ pc = "d_mktemp"
    /\ tempFile' = CASE outcome = "ok"           -> "exists"
                     [] outcome = "create_fails" -> "none"
                     [] OTHER                    -> "removed"
    /\ pc' = IF outcome = "ok" THEN "d_ensure" ELSE "raised"
    /\ raisedIn' = IF outcome = "ok" THEN raisedIn ELSE "mktemp"
    /\ UNCHANGED <<concurrentVars, runtime, installed, pipOutcomes, pipRuns, flow, code, packages, missing_packages, unique_packages, idx,
                   allOk, pipCalls, registry, proc, cproc, containerRunning,
                   exitCode, execCount, result>>

\* if not self.is_container_running(): self.start_container()
\* The value of start_container is not looked at.
EnsureContainer(started) ==
    /\ pc = "d_ensure"
    /\ containerRunning => started
    /\ started => runtime = "ok"
    /\ containerRunning' = started
    /\ pc' = "d_cp"
    /\ UNCHANGED <<concurrentVars, runtime, installed, pipOutcomes, pipRuns, flow, code, packages, missing_packages, unique_packages, idx,
                   allOk, pipCalls, registry, tempFile, proc, cproc, exitCode,
                   raisedIn, execCount, result>>

\* subprocess.run(['docker', 'cp', ...], check=True): CalledProcessError when
\* the copy fails, as it does when there is no container.
DockerCopy(ok) ==
    /\ pc = "d_cp"
    /\ ok => containerRunning
    /\ IF ok
       THEN /\ pc' = "d_exec"
            /\ UNCHANGED <<result, raisedIn>>
       ELSE /\ pc' = "d_cleanup"
            /\ raisedIn' = "cp"
            /\ result' = DockerCalledProcessError
    /\ UNCHANGED <<concurrentVars, runtime, installed, pipOutcomes, pipRuns, flow, code, packages, missing_packages, unique_packages, idx,
                   allOk, pipCalls, registry, tempFile, proc, cproc,
                   containerRunning, exitCode, execCount>>

\* subprocess.run(docker exec ... python script.py, timeout=timeout): the
\* child is the docker exec client, the code runs in the container.
DockerExec ==
    /\ pc = "d_exec"
    /\ execCount < MaxExec
    /\ execCount' = execCount + 1
    /\ proc' = "running"
    /\ cproc' = "running"
    /\ pc' = "running"
    /\ UNCHANGED <<concurrentVars, runtime, installed, pipOutcomes, pipRuns, flow, code, packages, missing_packages, unique_packages, idx,
                   allOk, pipCalls, registry, tempFile, containerRunning,
                   exitCode, raisedIn, result>>

\* The script ends before the timeout; docker exec exits with its code.  The
\* output is decoded (text=True) and the execution log is written inside the
\* try: an exception of either reaches except Exception.
DockerProcessExits(rc, decodes, logged) ==
    /\ pc = "running"
    /\ flow = "docker"
    /\ ~decodes => logged
    /\ proc' = "exited"
    /\ cproc' = "exited"
    /\ exitCode' = rc
    /\ result' = IF decodes /\ logged THEN DockerCompleted(rc, "captured")
                 ELSE DockerException
    /\ raisedIn' = CASE ~decodes -> "decode"
                     [] ~logged  -> "log"
                     [] OTHER    -> raisedIn
    /\ pc' = "d_cleanup"
    /\ UNCHANGED <<concurrentVars, runtime, installed, pipOutcomes, pipRuns, flow, code, packages, missing_packages, unique_packages, idx,
                   allOk, pipCalls, registry, tempFile, containerRunning,
                   execCount>>

\* The timeout expires first: subprocess.run kills its child, the docker exec
\* client.  Nothing in execute_code stops the container or the interpreter
\* that docker exec started in it, which is no child of the client.
DockerTimesOut ==
    /\ pc = "running"
    /\ flow = "docker"
    /\ proc' = "killed"
    /\ raisedIn' = "timeout"
    /\ result' = DockerTimeout
    /\ pc' = "d_cleanup"
    /\ UNCHANGED <<concurrentVars, runtime, installed, pipOutcomes, pipRuns, flow, code, packages, missing_packages, unique_packages, idx,
                   allOk, pipCalls, registry, tempFile, cproc, containerRunning,
                   exitCode, execCount>>

\* The exit of the with block removes the temporary directory.
DockerCleanup ==
    /\ pc = "d_cleanup"
    /\ tempFile' = "removed"
    /\ pc' = "returned"
    /\ UNCHANGED <<concurrentVars, runtime, installed, pipOutcomes, pipRuns, flow, code, packages, missing_packages, unique_packages, idx,
                   allOk, pipCalls, registry, proc, cproc, containerRunning,
                   exitCode, raisedIn, execCount, result>>

(***************************************************************************)
(* DependencyManager.install_dependencies                                  *)
(***************************************************************************)
BoolResult(b) ==
    [kind |-> "bool", success |-> b, stdout |-> "", stderr |-> "",
     error_type |-> "absent", exit_code |-> "absent"]

\* Mutant: the membership test forgets .lower().
NotSeenCaseSensitive(mapped_pkg, seen) == mapped_pkg \notin seen

\* if mapped_pkg.lower() not in seen
NotSeen(mapped_pkg, seen) == Lower(mapped_pkg) \notin seen

\* The loop that builds unique_packages; seen holds the lower-cased names.
RECURSIVE Unique(_, _, _)
Unique(pkgs, seen, acc) ==
    IF pkgs = <<>> THEN acc
    ELSE LET mapped_pkg == PACKAGE_MAPPING(Head(pkgs))
         IN  IF NotSeen(mapped_pkg, seen)
             THEN Unique(Tail(pkgs), seen \cup {Lower(mapped_pkg)}, Append(acc, mapped_pkg))
             ELSE Unique(Tail(pkgs), seen, acc)

InstallDependencies(pkgs) ==
    /\ CanInvoke
    /\ Enter("deps", "i_start", NoCode, pkgs)
    /\ UNCHANGED <<containerRunning, runtime>>

\* if not packages: return True; otherwise the deduplication.
DepsPrepare ==
    /\ pc = "i_start"
    /\ IF packages = <<>>
       THEN /\ result' = BoolResult(TRUE)
            /\ pc' = "returned"
            /\ UNCHANGED unique_packages
       ELSE /\ unique_packages' = Unique(packages, {}, <<>>)
            /\ pc' = "i_install"
            /\ UNCHANGED result
    /\ UNCHANGED <<concurrentVars, runtime, installed, pipOutcomes, pipRuns, flow, code, packages, missing_packages, idx, allOk, pipCalls,
                   registry, tempFile, proc, cproc, containerRunning, exitCode,
                   raisedIn, execCount>>

\* Mutant: the outcome of the last package decides.
Aggregate_last(success, ok) == ok

\* success starts True; except CalledProcessError: success = False
Aggregate(success, ok) == success /\ ok

\* for pkg in unique_packages: subprocess.check_call([... "pip", "install", pkg])
\* except CalledProcessError: success = False; continue
DepsInstall(ok) ==
    /\ pc = "i_install"
    /\ idx <= Len(unique_packages)
    /\ Pip(unique_packages[idx], ok)
    /\ allOk' = Aggregate(allOk, ok)
    /\ idx' = idx + 1
    /\ UNCHANGED <<concurrentVars, runtime, installed, flow, pc, code, packages, missing_packages, unique_packages,
                   tempFile, proc, cproc, containerRunning, exitCode, raisedIn,
                   execCount, result>>

\* return success
DepsReturn ==
    /\ pc = "i_install"
    /\ idx > Len(unique_packages)
    /\ result' = BoolResult(allOk)
    /\ pc' = "returned"
    /\ UNCHANGED <<concurrentVars, runtime, installed, pipOutcomes, pipRuns, flow, code, packages, missing_packages, unique_packages, idx,
                   allOk, pipCalls, registry, tempFile, proc, cproc,
                   containerRunning, exitCode, raisedIn, execCount>>

(***************************************************************************)
(* main of pylama.py, from the dependencies on (the script's own           *)
(* DependencyManager).                                                     *)
(***************************************************************************)
\* check_dependencies: the local package_mapping.get(module, module)
package_mapping(module) ==
    CASE module = "PIL"     -> "pillow"
      [] module = "sklearn" -> "scikit-learn"
      [] OTHER              -> module

\* Mutant: only the installed distributions are asked, no import is tried.
check_dependencies_registry_only(modules, reg) ==
    LET found == {m \in modules : Lower(package_mapping(m)) \in reg}
    IN  [installed |-> found,
         missing   |-> InOrder({package_mapping(m) : m \in modules \ found})]

\* check_dependencies: a module that imports (importlib.import_module), or
\* whose mapped name, lower-cased, is among the installed distributions, is
\* appended to installed; the mapped name of any other to missing.
check_dependencies(modules, reg) ==
    LET found == {m \in modules :
                     Importable(m, reg) \/ Lower(package_mapping(m)) \in reg}
    IN  [installed |-> found,
         missing   |-> InOrder({package_mapping(m) : m \in modules \ found})]

\* main has the code that the model answered with.
Main(imps) ==
    /\ CanInvoke
    /\ Enter("main", "m_check", [imports |-> imps, parse |-> "ok", encodable |-> TRUE], <<>>)
    /\ UNCHANGED <<containerRunning, runtime>>

\* modules = extract_imports(code); installed, missing = check_dependencies(modules)
MainCheck ==
    /\ pc = "m_check"
    /\ installed' = check_dependencies(code.imports, registry).installed
    /\ missing_packages' = check_dependencies(code.imports, registry).missing
    /\ pc' = "m_install"
    /\ UNCHANGED <<concurrentVars, runtime, pipOutcomes, pipRuns, flow, code, packages,
                   unique_packages, idx, allOk, pipCalls, registry, tempFile,
                   proc, cproc, containerRunning, exitCode, raisedIn, execCount,
                   result>>

\* if missing: if not dependency_manager.install_dependencies(missing): return
\* install_dependencies of pylama.py is one call of the package manager,
\* pip install + packages, which installs all of them or fails as a whole.
MainInstall(ok) ==
    /\ pc = "m_install"
    /\ IF missing_packages = <<>>
       THEN /\ ok
            /\ pc' = "m_execute"
            /\ UNCHANGED <<pipCalls, pipRuns, pipOutcomes, registry, allOk>>
       ELSE /\ ok => \A p \in Range(missing_packages) : Installable(p)
            /\ pipCalls' = pipCalls \o missing_packages
            /\ pipRuns' = pipRuns + 1
            /\ pipOutcomes' = pipOutcomes \o [i \in 1..Len(missing_packages) |-> ok]
            /\ registry' = IF ok THEN registry \cup {Lower(p) : p \in Range(missing_packages)}
                           ELSE registry
            /\ allOk' = ok
            /\ pc' = IF ok THEN "m_execute" ELSE "returned"
    /\ UNCHANGED <<concurrentVars, runtime, installed, flow, code, packages, missing_packages,
                   unique_packages, idx, tempFile, proc, cproc, containerRunning,
                   exitCode, raisedIn, execCount, result>>

\* ollama.run_code_with_debug(code_file, prompt, code): the code is executed.
MainExecute ==
    /\ pc = "m_execute"
    /\ execCount < MaxExec
    /\ execCount' = execCount + 1
    /\ pc' = "returned"
    /\ UNCHANGED <<concurrentVars, runtime, installed, pipOutcomes, pipRuns, flow, code, packages,
                   missing_packages, unique_packages, idx, allOk, pipCalls,
                   registry, tempFile, proc, cproc, containerRunning, exitCode,
                   raisedIn, result>>

(***************************************************************************)
(* DockerSandbox.start_container and stop_container, called by several     *)
(* callers at once.  Every docker command is one step; the callers'        *)
(* steps interleave.                                                       *)
(***************************************************************************)
\* is_container_running: container_name is in the output of docker ps.
is_container_running == containers > 0

StartContainer(c) ==
    /\ starter[c].pc \in {"idle", "returned"}
    /\ starter' = [starter EXCEPT ![c] =
           [pc |-> "s_check", op |-> "start", result |-> "none",
            sawRunning |-> FALSE, ran |-> FALSE]]
    /\ UNCHANGED <<containers, imagePresent, envFault, stopped, outsideStart>>

\* Mutant: start_container does not return when the container runs.
AfterStartCheck_always_start(running) == "s_inspect"

\* if self.is_container_running(): return True
AfterStartCheck(running) == IF running THEN "returned" ELSE "s_inspect"

StartCheck(c) ==
    /\ starter[c].pc = "s_check"
    /\ LET next == AfterStartCheck(is_container_running)
       IN  starter' = [starter EXCEPT ![c].pc = next,
                                      ![c].sawRunning = is_container_running,
                                      ![c].result = IF next = "returned" THEN "true" ELSE "none"]
    /\ UNCHANGED <<containers, imagePresent, envFault, stopped, outsideStart>>

\* docker image inspect: is the image there, or must it be pulled
StartInspect(c) ==
    /\ starter[c].pc = "s_inspect"
    /\ starter' = [starter EXCEPT ![c].pc = IF imagePresent THEN "s_run" ELSE "s_pull"]
    /\ UNCHANGED <<containers, imagePresent, envFault, stopped, outsideStart>>

\* docker pull with check=True: CalledProcessError is caught, return False.
StartPull(c, ok) ==
    /\ starter[c].pc = "s_pull"
    /\ IF ok
       THEN /\ imagePresent' = TRUE
            /\ starter' = [starter EXCEPT ![c].pc = "s_run"]
            /\ UNCHANGED envFault
       ELSE /\ envFault' = TRUE
            /\ starter' = [starter EXCEPT ![c].pc = "returned", ![c].result = "false"]
            /\ UNCHANGED imagePresent
    /\ UNCHANGED <<containers, stopped, outsideStart>>

\* docker run --name container_name -d -p ... --rm ...: the daemon refuses a
\* name (and a host port) that a running container holds; the command may
\* also fail for a reason of its own.  if run_result.returncode != 0: return False
StartRun(c, ok) ==
    /\ starter[c].pc = "s_run"
    /\ ok => containers = 0
    /\ IF ok
       THEN /\ containers' = containers + 1
            /\ starter' = [starter EXCEPT ![c].pc = "s_sleep", ![c].ran = TRUE]
            /\ UNCHANGED envFault
       ELSE /\ envFault' = (envFault \/ containers = 0)
            /\ starter' = [starter EXCEPT ![c].pc = "returned", ![c].ran = TRUE,
                                          ![c].result = "false"]
            /\ UNCHANGED containers
    /\ UNCHANGED <<imagePresent, stopped, outsideStart>>

\* time.sleep(5); return True if self.is_container_running() else False
StartVerify(c) ==
    /\ starter[c].pc = "s_sleep"
    /\ starter' = [starter EXCEPT ![c].pc = "returned",
                                  ![c].result = IF is_container_running THEN "true" ELSE "false"]
    /\ UNCHANGED <<containers, imagePresent, envFault, stopped, outsideStart>>

StopContainer(c) ==
    /\ starter[c].pc \in {"idle", "returned"}
    /\ starter' = [starter EXCEPT ![c] =
           [pc |-> "p_check", op |-> "stop", result |-> "none",
            sawRunning |-> FALSE, ran |-> FALSE]]
    /\ UNCHANGED <<containers, imagePresent, envFault, stopped, outsideStart>>

\* if not self.is_container_running(): return True
StopCheck(c) ==
    /\ starter[c].pc = "p_check"
    /\ starter' = [starter EXCEPT ![c].pc = IF is_container_running THEN "p_stop" ELSE "returned",
                                  ![c].sawRunning = is_container_running,
                                  ![c].result = IF is_container_running THEN "none" ELSE "true"]
    /\ UNCHANGED <<containers, imagePresent, envFault, stopped, outsideStart>>

\* docker stop container_name with check=True; --rm removes the stopped
\* container.  Without a container of the name the command fails.
StopRun(c) ==
    /\ starter[c].pc = "p_stop"
    /\ IF is_container_running
       THEN /\ containers' = containers - 1
            /\ stopped' = TRUE
            /\ starter' = [starter EXCEPT ![c].pc = "returned", ![c].result = "true"]
       ELSE /\ starter' = [starter EXCEPT ![c].pc = "returned", ![c].result = "false"]
            /\ UNCHANGED <<containers, stopped>>
    /\ UNCHANGED <<imagePresent, envFault, outsideStart>>

\* The container's main process ends by itself; --rm removes the container.
ContainerExits ==
    /\ containers > 0
    /\ containers' = containers - 1
    /\ stopped' = TRUE
    /\ UNCHANGED <<starter, imagePresent, envFault, outsideStart>>

StartNext ==
    \/ ContainerExits
    \/ \E c \in Callers :
        \/ StartContainer(c)
        \/ StartCheck(c)
        \/ StartInspect(c)
        \/ \E ok \in BOOLEAN : StartPull(c, ok)
        \/ \E ok \in BOOLEAN : StartRun(c, ok)
        \/ StartVerify(c)
        \/ StopContainer(c)
        \/ StopCheck(c)
        \/ StopRun(c)

\* Several threads share one DockerSandbox.
StartSpec == Init /\ [][StartNext]_allVars

(***************************************************************************)
(* DependencyManager.install_dependencies, called by several callers at    *)
(* once.  The run of one pip process is two steps, its start and its end.  *)
(***************************************************************************)
InstallArgs == {<<"numpy">>, <<"PIL", "Image">>, <<"numpy", "PIL">>, <<"nonexistent_pkg_xyz">>}

\* if not packages: return True; the deduplication; the loop is entered.
ConcurrentInstallDependencies(c, pkgs) ==
    /\ installer[c].pc \in {"idle", "returned"}
    /\ installer' = [installer EXCEPT ![c] =
           [pc |-> "loop", unique_packages |-> Unique(pkgs, {}, <<>>),
            idx |-> 1, success |-> TRUE]]
    /\ UNCHANGED <<site_packages, outsideInstall>>

\* subprocess.check_call([sys.executable, "-m", "pip", "install", pkg]) starts.
PipStart(c) ==
    /\ installer[c].pc = "loop"
    /\ installer[c].idx <= Len(installer[c].unique_packages)
    /\ installer' = [installer EXCEPT ![c].pc = "pip"]
    /\ UNCHANGED <<site_packages, outsideInstall>>

\* The pip process ends: the package is installed, or CalledProcessError.
PipEnd(c, ok) ==
    /\ installer[c].pc = "pip"
    /\ LET pkg == installer[c].unique_packages[installer[c].idx]
       IN  /\ ok => Installable(pkg)
           /\ site_packages' = IF ok THEN site_packages \cup {Lower(pkg)} ELSE site_packages
    /\ installer' = [installer EXCEPT ![c].pc = "loop",
                                      ![c].idx = @ + 1,
                                      ![c].success = @ /\ ok]
    /\ UNCHANGED <<outsideInstall>>

\* return success
ConcurrentReturn(c) ==
    /\ installer[c].pc = "loop"
    /\ installer[c].idx > Len(installer[c].unique_packages)
    /\ installer' = [installer EXCEPT ![c].pc = "returned"]
    /\ UNCHANGED <<site_packages, outsideInstall>>

InstallNext ==
    \E c \in Callers :
        \/ \E pkgs \in InstallArgs : ConcurrentInstallDependencies(c, pkgs)
        \/ PipStart(c)
        \/ \E ok \in BOOLEAN : PipEnd(c, ok)
        \/ ConcurrentReturn(c)

\* Several orchestrator invocations install at once.
InstallSpec == Init /\ [][InstallNext]_allVars

----------------------------------------------------------------------------
\* The analyzers: CodeAnalyzer.analyze_code, which walks the syntax tree,
\* and DependencyManager.extract_imports, which matches lines.

MaxStmts == 2    \* longest source handed to the analyzers, in statements

\* One alias of an import statement: the dotted name and whether "as" follows.
Alias(name, asname) == [name |-> name, asname |-> asname]

\* A statement of a source, one per line: what the line is, the names of
\* an import, the module and the level (leading dots) of a from-import.
Stmt(kind, names, module, level) ==
    [kind |-> kind, names |-> names, module |-> module, level |-> level]

Statements ==
    { Stmt("import", <<Alias(<<"os", "path">>, FALSE)>>, <<>>, 0),
          \* import os.path
      Stmt("import", <<Alias(<<"sqlite3">>, TRUE), Alias(<<"sklearn">>, TRUE)>>, <<>>, 0),
          \* import sqlite3 as sq, sklearn as sk
      Stmt("import", <<Alias(<<"sqlite3">>, FALSE), Alias(<<"foo">>, FALSE)>>, <<>>, 0),
          \* import sqlite3, foo
      Stmt("from", <<>>, <<"sklearn", "x">>, 0),
          \* from sklearn.x import y
      Stmt("from", <<>>, <<>>, 1),
          \* from . import x
      Stmt("from", <<>>, <<"y">>, 1),
          \* from .y import z
      Stmt("text", <<Alias(<<"foo">>, FALSE)>>, <<>>, 0),
          \* the line "import foo" inside a triple-quoted string
      Stmt("invalid", <<>>, <<>>, 0),
          \* if True
      Stmt("other", <<>>, <<>>, 0) }
          \* x = 1

Sources == SeqsUpTo(Statements, MaxStmts)

\* The modules the host process may have imported by the time an analyzer is
\* built, and the modules importlib.util.find_spec finds on the host.
HostModules == {"sqlite3", "sklearn"}
find_spec == {"os", "sqlite3", "sklearn"}

\* ast.parse raises SyntaxError.
Invalid(src) == \E i \in DOMAIN src : src[i].kind = "invalid"

\* CodeAnalyzer.__init__: the builtin and listed names and every top-level
\* name of sys.modules.
CodeAnalyzer(sys_modules) == std_lib_modules \cup sys_modules

\* CodeAnalyzer._classify_module of an instance whose table is std.
classify(std, module_name) ==
    IF module_name \in std THEN "standard_library"
    ELSE IF module_name \in find_spec THEN "third_party"
    ELSE "unknown"

\* The keys the loop over ast.walk(tree) assigns for one node, in order.
NodeNames(node) ==
    IF node.kind = "import" THEN [i \in DOMAIN node.names |-> Head(node.names[i].name)]
    ELSE IF node.kind = "from" /\ node.module # <<>> THEN <<Head(node.module)>>
    ELSE <<>>

\* imports[module_name] = ... for each of names: a new key goes to the end
\* of the dict, a key it has already keeps its place.
RECURSIVE Assign(_, _)
Assign(keys, names) ==
    IF names = <<>> THEN keys
    ELSE Assign(IF \E i \in DOMAIN keys : keys[i] = Head(names)
                THEN keys ELSE Append(keys, Head(names)),
                Tail(names))

\* The keys of imports after the loop over ast.walk(tree), in the order of
\* the dict.
RECURSIVE WalkFrom(_, _)
WalkFrom(keys, tree) ==
    IF tree = <<>> THEN keys
    ELSE WalkFrom(Assign(keys, NodeNames(Head(tree))), Tail(tree))

Walk(tree) == WalkFrom(<<>>, tree)

\* Mutant: the comprehension does not filter.
ImportsOfAnyCategory(imports, keys, category) == keys

\* [name for name, category in imports.items() if category == ...]
ImportsOf(imports, keys, category) ==
    SelectSeq(keys, LAMBDA n : imports[n] = category)

AnalysisOf(std, keys) ==
    LET imports == [n \in {keys[i] : i \in DOMAIN keys} |-> classify(std, n)]
        third_party_imports == ImportsOf(imports, keys, "third_party")
        unknown_imports == ImportsOf(imports, keys, "unknown")
    IN  [done |-> TRUE, error |-> FALSE, imports |-> imports,
         standard_library |-> ImportsOf(imports, keys, "standard_library"),
         third_party |-> third_party_imports,
         unknown |-> unknown_imports,
         required_packages |-> third_party_imports \o unknown_imports]

AnalysisError ==
    [done |-> TRUE, error |-> TRUE, imports |-> NoImports,
     standard_library |-> <<>>, third_party |-> <<>>, unknown |-> <<>>,
     required_packages |-> <<>>]

\* The statements before the first one that does not parse.
RECURSIVE Preceding(_)
Preceding(src) ==
    IF src = <<>> \/ Head(src).kind = "invalid" THEN <<>>
    ELSE <<Head(src)>> \o Preceding(Tail(src))

analyze_code_partial(std, src) ==
    IF Invalid(src)
    THEN [AnalysisOf(std, Walk(Preceding(src))) EXCEPT !.error = TRUE]
    ELSE AnalysisOf(std, Walk(src))

\* CodeAnalyzer.analyze_code of an instance whose table is std.
analyze_code(std, src) ==
    IF Invalid(src) THEN AnalysisError ELSE AnalysisOf(std, Walk(src))

\* What the first pattern of extract_imports captures on an import line: the
\* first name up to its first dot, and the next names while a comma follows
\* directly.
RECURSIVE Captured(_)
Captured(names) ==
    IF names = <<>> THEN {}
    ELSE {Head(Head(names).name)}
         \cup (IF Len(Head(names).name) = 1 /\ ~Head(names).asname
               THEN Captured(Tail(names)) ELSE {})

\* What the patterns of extract_imports match on one line. The text of a
\* string is matched like a statement; a module with leading dots splits
\* to an empty base name, which is dropped.
LineNames(line) ==
    IF line.kind \in {"import", "text"} THEN Captured(line.names)
    ELSE IF line.kind = "from" /\ line.level = 0 /\ line.module # <<>>
         THEN {Head(line.module)}
    ELSE {}

\* DependencyManager.extract_imports.
extract_imports(src) == UNION {LineNames(src[i]) : i \in DOMAIN src}

\* A source is handed over, once: the analysis of one source does not
\* depend on the sources analysed before.
Submit(src) ==
    /\ source = <<>>
    /\ \A a \in Analyzers : ~analysis[a].done
    /\ ~extracted.done
    /\ source' = src
    /\ analysis' = [a \in Analyzers |-> NoAnalysis]
    /\ extracted' = NotExtracted
    /\ UNCHANGED <<loaded, analyzer, outsideAnalyzer>>

\* The host process imports a module.
HostImport(m) ==
    /\ m \notin loaded
    /\ loaded' = loaded \cup {m}
    /\ UNCHANGED <<source, analyzer, analysis, extracted, outsideAnalyzer>>

\* CodeAnalyzer()
BuildAnalyzer(a) ==
    /\ ~analyzer[a].built
    /\ analyzer' = [analyzer EXCEPT ![a] = [built |-> TRUE, std_lib_modules |-> CodeAnalyzer(loaded)]]
    /\ UNCHANGED <<source, loaded, analysis, extracted, outsideAnalyzer>>

\* analyzer.analyze_code(source)
AnalyzeCode(a) ==
    /\ analyzer[a].built
    /\ ~analysis[a].done
    /\ analysis' = [analysis EXCEPT ![a] = analyze_code(analyzer[a].std_lib_modules, source)]
    /\ UNCHANGED <<source, loaded, analyzer, extracted, outsideAnalyzer>>

\* DependencyManager.extract_imports(source)
ExtractImports ==
    /\ ~extracted.done
    /\ extracted' = [done |-> TRUE, modules |-> extract_imports(source)]
    /\ UNCHANGED <<source, loaded, analyzer, analysis, outsideAnalyzer>>

AnalyzerNext ==
    \/ \E src \in Sources : Submit(src)
    \/ \E m \in HostModules : HostImport(m)
    \/ \E a \in Analyzers : BuildAnalyzer(a)
    \/ \E a \in Analyzers : AnalyzeCode(a)
    \/ ExtractImports

AnalyzerSpec == Init /\ [][AnalyzerNext]_allVars

----------------------------------------------------------------------------
\* execute_code of src/pylama/pylama.py: one sandbox is made and its run is
\* called with the code.

\* The values of the USE_DOCKER environment variable; "unset" stands for
\* a variable that is not set.
EnvValues == {"unset", "true", "True", "TRUE", "1", "yes", "YES", "t", "on", "false", "False", "0"}

ExecCodes == {"print('Hello, World!')", "x = 1"}

\* What the run of a sandbox may return.
RunResults == {[output |-> "Hello, World!", error |-> "none"],
               [output |-> "", error |-> "NameError"]}

\* Mutant: the environment is not consulted.
use_docker_env_ignored(env) == FALSE

\* os.environ.get("USE_DOCKER", "False").lower() in ("true", "1", "yes")
use_docker_env(env) ==
    Lower(IF env = "unset" THEN "False" ELSE env) \in {"true", "1", "yes"}

\* The environment changes between calls.
SetEnv(v) ==
    /\ call.pc \in {"idle", "returned", "raised"}
    /\ environ # v
    /\ environ' = v
    /\ UNCHANGED <<call, created, runCalls, runResult, returned, outsideExec>>

\* execute_code(code, use_docker)
ExecuteCodeCall(c, u) ==
    /\ call.pc \in {"idle", "returned", "raised"}
    /\ call' = [pc |-> "create", code |-> c, use_docker |-> u, env |-> "unset", sandbox |-> "none"]
    /\ created' = <<>>
    /\ runCalls' = <<>>
    /\ runResult' = NoRunResult
    /\ returned' = NoRunResult
    /\ UNCHANGED <<environ, outsideExec>>

\* sandbox = DockerSandbox() or sandbox = PythonSandbox()
CreateSandbox ==
    /\ call.pc = "create"
    /\ LET use_docker == call.use_docker \/ use_docker_env(environ)
           sandbox == IF use_docker THEN "DockerSandbox" ELSE "PythonSandbox"
       IN  /\ call' = [call EXCEPT !.pc = "run", !.env = environ, !.sandbox = sandbox]
           /\ created' = Append(created, sandbox)
    /\ UNCHANGED <<environ, runCalls, runResult, returned, outsideExec>>

\* sandbox.run(code) returns.
SandboxRun(res) ==
    /\ call.pc = "run"
    /\ runCalls' = Append(runCalls, [sandbox |-> call.sandbox, code |-> call.code])
    /\ runResult' = res
    /\ call' = [call EXCEPT !.pc = "return"]
    /\ UNCHANGED <<environ, created, returned, outsideExec>>

\* sandbox.run(code) raises, and so does execute_code.
SandboxRunRaises ==
    /\ call.pc = "run"
    /\ runCalls' = Append(runCalls, [sandbox |-> call.sandbox, code |-> call.code])
    /\ call' = [call EXCEPT !.pc = "raised"]
    /\ UNCHANGED <<environ, created, runResult, returned, outsideExec>>

\* return sandbox.run(code)
ExecuteCodeReturn ==
    /\ call.pc = "return"
    /\ returned' = runResult
    /\ call' = [call EXCEPT !.pc = "returned"]
    /\ UNCHANGED <<environ, created, runCalls, runResult, outsideExec>>

ExecNext ==
    \/ \E v \in EnvValues : SetEnv(v)
    \/ \E c \in ExecCodes, u \in BOOLEAN : ExecuteCodeCall(c, u)
    \/ CreateSandbox
    \/ \E res \in RunResults : SandboxRun(res)
    \/ SandboxRunRaises
    \/ ExecuteCodeReturn

ExecSpec == Init /\ [][ExecNext]_allVars

----------------------------------------------------------------------------
\* OllamaRunner.start_ollama and stop_ollama of src/OllamaRunner.py. The
\* server and the container are "down", "own" (brought up by this runner) or
\* "external" (brought up by someone else).

MaxSpawn == 2    \* cap on the number of "ollama serve" processes spawned

\* OllamaRunner(), with USE_DOCKER as the module read it; a new runner has
\* no process. What an earlier runner brought up is not this runner's.
NewRunner(u) ==
    /\ runner' = [built |-> TRUE, use_docker |-> u, ollama_process |-> "none", last |-> "init"]
    /\ server' = IF server = "own" THEN "external" ELSE server
    /\ container' = IF container = "own" THEN "external" ELSE container
    /\ UNCHANGED <<spawned, outsideRunner>>

\* Someone else brings the server up, or takes it down.
ExternalServer ==
    /\ \/ server = "down" /\ server' = "external"
       \/ server = "external" /\ server' = "down"
    /\ UNCHANGED <<runner, container, spawned, outsideRunner>>

\* Someone else brings the container up, or takes it down.
ExternalContainer ==
    /\ \/ container = "down" /\ container' = "external"
       \/ container = "external" /\ container' = "down"
    /\ UNCHANGED <<runner, server, spawned, outsideRunner>>

\* The process this runner spawned ends by itself.
OwnProcessExits ==
    /\ runner.ollama_process = "running"
    /\ runner' = [runner EXCEPT !.ollama_process = "exited"]
    /\ server' = IF server = "own" THEN "down" ELSE server
    /\ UNCHANGED <<container, spawned, outsideRunner>>

\* start_ollama in Docker mode: docker_sandbox.start_container(), which
\* returns True at once when the container runs; ok says whether docker run
\* brings it up. RuntimeError otherwise.
StartOllamaDocker(ok) ==
    /\ runner.built
    /\ runner.use_docker
    /\ IF container # "down"
       THEN /\ runner' = [runner EXCEPT !.last = "started"]
            /\ UNCHANGED container
       ELSE IF ok
       THEN /\ runner' = [runner EXCEPT !.last = "started"]
            /\ container' = "own"
       ELSE /\ runner' = [runner EXCEPT !.last = "RuntimeError"]
            /\ UNCHANGED container
    /\ UNCHANGED <<server, spawned, outsideRunner>>

\* requests.get(self.version_api_url) does not raise ConnectionError.
ServerAnswers(s) == s # "down"

\* start_ollama outside Docker: nothing when the server answers, otherwise
\* "ollama serve" is spawned and the version asked again after five seconds;
\* ok says whether the spawned server answers then. RuntimeError otherwise.
StartOllamaLocal(ok) ==
    /\ runner.built
    /\ ~runner.use_docker
    /\ IF ServerAnswers(server)
       THEN /\ runner' = [runner EXCEPT !.last = "started"]
            /\ UNCHANGED <<server, spawned>>
       ELSE /\ spawned < MaxSpawn
            /\ spawned' = spawned + 1
            /\ IF ok /\ server = "down"
               THEN /\ runner' = [runner EXCEPT !.last = "started", !.ollama_process = "running"]
                    /\ server' = "own"
               ELSE /\ runner' = [runner EXCEPT !.last = "RuntimeError", !.ollama_process = "running"]
                    /\ UNCHANGED server
    /\ UNCHANGED <<container, outsideRunner>>

\* stop_ollama in Docker mode: docker_sandbox.stop_container(), which runs
\* docker stop whenever the container runs; ok says whether docker stop
\* succeeds.
StopOllamaDocker(ok) ==
    /\ runner.built
    /\ runner.use_docker
    /\ container' = IF ok THEN "down" ELSE container
    /\ runner' = [runner EXCEPT !.last = "stopped"]
    /\ UNCHANGED <<server, spawned, outsideRunner>>

\* stop_ollama outside Docker: the process is terminated and waited for if
\* the runner has one.
StopOllamaLocal ==
    /\ runner.built
    /\ ~runner.use_docker
    /\ IF runner.ollama_process = "running"
       THEN /\ runner' = [runner EXCEPT !.last = "stopped", !.ollama_process = "exited"]
            /\ server' = IF server = "own" THEN "down" ELSE server
       ELSE /\ runner' = [runner EXCEPT !.last = "stopped"]
            /\ UNCHANGED server
    /\ UNCHANGED <<container, spawned, outsideRunner>>

RunnerNext ==
    \/ \E u \in BOOLEAN : NewRunner(u)
    \/ ExternalServer
    \/ ExternalContainer
    \/ OwnProcessExits
    \/ \E ok \in BOOLEAN : StartOllamaDocker(ok)
    \/ \E ok \in BOOLEAN : StartOllamaLocal(ok)
    \/ \E ok \in BOOLEAN : StopOllamaDocker(ok)
    \/ StopOllamaLocal

RunnerSpec == Init /\ [][RunnerNext]_allVars

----------------------------------------------------------------------------
\* interactive_mode of src/pylama/cli.py. An input line is the sequence of
\* its words, as input().strip() leaves them.

Inputs ==
    { <<"exit">>, <<"QUIT">>, <<"help">>, <<"models">>, <<"list">>,
      <<"set", "model">>, <<"set", "model", "codellama">>, <<"set", "model", "phi">>,
      <<"set", "model", "nosuch">>, <<"set", "template", "secure">>,
      <<"set", "template", "basic">>, <<"set", "template", "nosuch">>,
      <<"set", "template">>, <<"templates">>, <<>>,
      <<"create", "a", "program">>, <<"hlep">> }

\* get_models(), in part, and the templates interactive_mode knows.
get_models == {"llama2", "codellama", "phi"}
templates == {"basic", "platform_aware", "dependency_aware", "testable", "secure",
              "performance", "pep8"}

\* user_input.lower()
LowerWords(words) == [i \in DOMAIN words |-> Lower(words[i])]

\* user_input.lower().startswith(prefix + " "), the input being stripped.
StartsWith(words, prefix) ==
    /\ Len(words) > Len(prefix)
    /\ SubSeq(LowerWords(words), 1, Len(prefix)) = prefix

\* difflib.get_close_matches(command_word, known_commands, n=1, cutoff=0.75)
get_close_matches(command_word) ==
    CASE command_word = "hlep" -> "help"
      [] OTHER                 -> "none"

\* The branch of the if/elif chain an input takes.
Branch(words) ==
    LET low == LowerWords(words)
    IN  IF low \in {<<"exit">>, <<"quit">>} THEN "exit"
        ELSE IF low = <<"help">> THEN "help"
        ELSE IF low \in {<<"models">>, <<"list">>} THEN "models"
        ELSE IF low = <<"set", "model">> THEN "set model"
        ELSE IF StartsWith(words, <<"set", "model">>) THEN "set model <name>"
        ELSE IF StartsWith(words, <<"set", "template">>) THEN "set template <name>"
        ELSE IF low = <<"templates">> THEN "templates"
        ELSE IF words # <<>>
             THEN IF get_close_matches(low[1]) # "none"
                  THEN "did you mean" ELSE "unrecognized"
        ELSE "empty"

\* Mutant: the name is taken without looking it up.
set_by_name_unchecked(current, name, known) == name

\* if new_model in models: model = new_model (and the same for the
\* template); otherwise "not found" is printed.
set_by_name(current, name, known) == IF name \in known THEN name ELSE current

\* interactive_mode(): the names generate_code and execute_code are read
\* before the loop; defined says whether the module has a generate_code.
InteractiveMode(defined) ==
    /\ session.pc \in {"none", "exited", "raised"}
    /\ session' = IF defined
                  THEN [pc |-> "prompt", model |-> "llama2", template |-> "platform_aware"]
                  ELSE [pc |-> "raised", model |-> "llama2", template |-> "platform_aware"]
    /\ user_input' = <<>>
    /\ handled' = "none"
    /\ prompts' = {}
    /\ UNCHANGED outsideInteractive

\* One turn of the loop: a line is read and handled; select is what
\* questionary.select(...).ask() returns.
ReadInput(words, select) ==
    /\ session.pc = "prompt"
    /\ user_input' = words
    /\ handled' = Branch(words)
    /\ LET b == Branch(words)
       IN  session' =
             IF b = "exit" THEN [session EXCEPT !.pc = "exited"]
             ELSE IF b \in {"models", "set model"} /\ select # "none"
                  THEN [session EXCEPT !.model = select]
             ELSE IF b = "set model <name>"
                  THEN [session EXCEPT !.model = set_by_name(@, words[3], get_models)]
             ELSE IF b = "set template <name>"
                  THEN [session EXCEPT !.template = set_by_name(@, words[3], templates)]
             ELSE session
    /\ UNCHANGED <<prompts, outsideInteractive>>

\* Ctrl+C at the prompt.
KeyboardInterrupt ==
    /\ session.pc = "prompt"
    /\ session' = [session EXCEPT !.pc = "exited"]
    /\ handled' = "KeyboardInterrupt"
    /\ UNCHANGED <<user_input, prompts, outsideInteractive>>

\* input() or a branch raises an Exception (EOFError on a closed stdin,
\* questionary without a terminal): "Error: ..." is printed and the loop
\* goes on.
TurnRaises ==
    /\ session.pc = "prompt"
    /\ handled' = "Error"
    /\ UNCHANGED <<session, user_input, prompts, outsideInteractive>>

InteractiveNext ==
    \/ \E defined \in BOOLEAN : InteractiveMode(defined)
    \/ \E words \in Inputs, select \in get_models \cup {"none"} : ReadInput(words, select)
    \/ KeyboardInterrupt
    \/ TurnRaises

InteractiveSpec == Init /\ [][InteractiveNext]_allVars

----------------------------------------------------------------------------
\* run_diagnostic of src/diagnose.py.

MaxExamples == 3    \* most example files in the examples directory

\* What sandbox.run_code may return for an example.
SandboxResults ==
    { [success |-> TRUE,  stdout |-> "hi", stderr |-> ""],
      [success |-> FALSE, stdout |-> "",   stderr |-> "Traceback"],
      [success |-> FALSE, stdout |-> "",   stderr |-> ""] }

\* execute_code_with_bexy: the sandbox's res in the format of
\* execute_code; "None" stands for None.
execute_code_with_bexy(res) ==
    [output |-> res.stdout,
     error  |-> IF ~res.success THEN res.stderr ELSE "None"]

\* if execution_result.get("error"): None and the empty string are false.
Truthy(error) == error \notin {"None", ""}

\* run_diagnostic(): the example files are listed.
RunDiagnostic(n) ==
    /\ diag.pc \in {"none", "done"}
    /\ diag' = [pc |-> "loop", n |-> n, i |-> 1]
    /\ results' = <<>>
    /\ sandboxRuns' = <<>>
    /\ processed' = <<>>
    /\ status' = "none"
    /\ UNCHANGED outsideDiagnose

\* One turn of the loop for an example that yields no code: its file is
\* empty or unreadable and generate_code returns nothing, or raises.
NoCodeForExample(raises) ==
    /\ diag.pc = "loop"
    /\ diag.i <= diag.n
    /\ processed' = Append(processed, diag.i)
    /\ results' = Append(results,
           [example |-> diag.i, success |-> FALSE,
            message |-> IF raises THEN "Exception" ELSE "No code generated"])
    /\ diag' = [diag EXCEPT !.i = diag.i + 1]
    /\ UNCHANGED <<sandboxRuns, status, outsideDiagnose>>

\* One turn of the loop for an example with code: the sandbox runs it and
\* returns res.
ExecuteExample(res) ==
    /\ diag.pc = "loop"
    /\ diag.i <= diag.n
    /\ processed' = Append(processed, diag.i)
    /\ sandboxRuns' = Append(sandboxRuns, [example |-> diag.i, success |-> res.success])
    /\ LET execution_result == execute_code_with_bexy(res)
       IN  results' = Append(results,
               IF Truthy(execution_result.error)
               THEN [example |-> diag.i, success |-> FALSE, message |-> "Execution error"]
               ELSE [example |-> diag.i, success |-> TRUE, message |-> "Success"])
    /\ diag' = [diag EXCEPT !.i = diag.i + 1]
    /\ UNCHANGED <<status, outsideDiagnose>>

\* One turn of the loop in which the sandbox raises.
ExecuteExampleRaises ==
    /\ diag.pc = "loop"
    /\ diag.i <= diag.n
    /\ processed' = Append(processed, diag.i)
    /\ results' = Append(results,
           [example |-> diag.i, success |-> FALSE, message |-> "Exception"])
    /\ sandboxRuns' = Append(sandboxRuns, [example |-> diag.i, success |-> FALSE])
    /\ diag' = [diag EXCEPT !.i = diag.i + 1]
    /\ UNCHANGED <<status, outsideDiagnose>>

\* The summary: return 0 if success_count == len(examples) else 1.
DiagnosticReturn ==
    /\ diag.pc = "loop"
    /\ diag.i > diag.n
    /\ LET success_count == Cardinality({k \in DOMAIN results : results[k].success})
       IN  status' = IF success_count = diag.n THEN "0" ELSE "1"
    /\ diag' = [diag EXCEPT !.pc = "done"]
    /\ UNCHANGED <<results, sandboxRuns, processed, outsideDiagnose>>

DiagnoseNext ==
    \/ \E n \in 0..MaxExamples : RunDiagnostic(n)
    \/ \E raises \in BOOLEAN : NoCodeForExample(raises)
    \/ \E res \in SandboxResults : ExecuteExample(res)
    \/ ExecuteExampleRaises
    \/ DiagnosticReturn

DiagnoseSpec == Init /\ [][DiagnoseNext]_allVars

----------------------------------------------------------------------------
\* start_service and stop_service of src/pylama/ecosystem.py. Of a service
\* the model keeps cur, the process the PID file was written for ("none",
\* "running", "exited" by itself, "signalled"), whether the PID file exists,
\* whether processes has the service, and orphans, the number of running
\* processes of the service that no PID file names any more.

MaxOrphans == 2    \* cap on the unreferenced processes of one service

\* The services start_service and stop_service are called for directly.
DirectServices == {"pybox", "weblama"}

\* start_service: a process is spawned, stored in processes and its PID
\* written over the PID file; what ran before keeps running.
start_service(rec) ==
    [cur |-> "running", file |-> TRUE, inTable |-> TRUE,
     orphans |-> rec.orphans + (IF rec.cur = "running" THEN 1 ELSE 0)]

\* The signal reaches the process the PID names only if it still runs.
Signal(cur) == IF cur = "running" THEN "signalled" ELSE cur

\* Mutant: an unreadable PID file ends the call.
stop_service_return_unreadable(rec, readable, unlinked) ==
    IF ~rec.file \/ ~readable THEN rec
    ELSE [rec EXCEPT !.cur = Signal(rec.cur), !.file = ~unlinked, !.inTable = FALSE]

\* stop_service: with a PID file, the PID is read and signalled when it can
\* be read, the file is unlinked (unlinked says whether that works) and the
\* service deleted from processes; without a PID file only a warning.
stop_service(rec, readable, unlinked) ==
    IF ~rec.file THEN rec
    ELSE [rec EXCEPT !.cur = IF readable THEN Signal(rec.cur) ELSE rec.cur,
                     !.file = ~unlinked,
                     !.inTable = FALSE]

\* What start_service may do without passing the cap.
CanStart(rec) == rec.cur = "running" => rec.orphans < MaxOrphans

\* start_service(service, ...)
StartService(s) ==
    /\ eco.op = "idle"
    /\ CanStart(svc[s])
    /\ svc' = [svc EXCEPT ![s] = start_service(svc[s])]
    /\ lastCall' = [op |-> "start", service |-> s, hadFile |-> svc[s].file,
                    readable |-> FALSE, unlinked |-> FALSE]
    /\ UNCHANGED <<eco, startOrder, stopOrder, outsideEco>>

\* stop_service(service)
StopService(s, readable, unlinked) ==
    /\ eco.op = "idle"
    /\ svc' = [svc EXCEPT ![s] = stop_service(svc[s], readable, unlinked)]
    /\ lastCall' = [op |-> "stop", service |-> s, hadFile |-> svc[s].file,
                    readable |-> readable, unlinked |-> unlinked]
    /\ UNCHANGED <<eco, startOrder, stopOrder, outsideEco>>

\* The process the PID file names ends by itself.
ServiceExits(s) ==
    /\ eco.op = "idle"
    /\ svc[s].cur = "running"
    /\ svc' = [svc EXCEPT ![s].cur = "exited"]
    /\ UNCHANGED <<lastCall, eco, startOrder, stopOrder, outsideEco>>

ServiceNext ==
    \/ \E s \in DirectServices : StartService(s)
    \/ \E s \in DirectServices, readable, unlinked \in BOOLEAN : StopService(s, readable, unlinked)
    \/ \E s \in DirectServices : ServiceExits(s)

ServiceSpec == Init /\ [][ServiceNext]_allVars

----------------------------------------------------------------------------
\* start_ecosystem and stop_ecosystem, outside Docker, of
\* src/pylama/ecosystem/ecosystem_manager.py ("manager") and of
\* src/pylama/ecosystem.py ("module").

MaxComponents == 2    \* longest list of components a caller gives
MaxEcoCalls == 2      \* cap on the calls of start_ecosystem and stop_ecosystem

service_order == <<"pybox", "pyllm", "shellama", "apilama", "pylama", "weblama">>

Reverse(s) == [i \in 1..Len(s) |-> s[Len(s) + 1 - i]]

\* The lists a caller gives: no service twice.
ComponentLists ==
    {l \in SeqsUpTo(Services, MaxComponents) :
        \A i, j \in DOMAIN l : i # j => l[i] # l[j]}

\* components as start_ecosystem sees them after the default: the manager
\* takes all services for None, the module for None and for an empty list.
StartComponents(impl, given, list) ==
    IF impl = "manager"
    THEN IF ~given THEN service_order ELSE list
    ELSE IF ~given \/ list = <<>> THEN service_order ELSE list

\* The same for stop_ecosystem.
StopComponents(impl, given, list) ==
    IF impl = "manager"
    THEN IF ~given THEN service_order ELSE list
    ELSE IF ~given \/ list = <<>> THEN Reverse(service_order) ELSE list

\* The sequence stop_ecosystem iterates over: the manager its own reversed
\* order, the module the components themselves.
StopIteration(impl, components) ==
    IF impl = "manager" THEN Reverse(service_order) ELSE components

\* start_ecosystem(components)
StartEcosystem(impl, given, list) ==
    /\ eco.op = "idle"
    /\ eco.calls < MaxEcoCalls
    /\ eco' = [op |-> "starting", impl |-> impl,
               components |-> StartComponents(impl, given, list),
               queue |-> service_order, calls |-> eco.calls + 1]
    /\ startOrder' = <<>>
    /\ UNCHANGED <<svc, lastCall, stopOrder, outsideEco>>

\* One turn of the loop of start_ecosystem; exists says whether the
\* directory of the service is there.
StartNextService(exists) ==
    /\ eco.op = "starting"
    /\ eco.queue # <<>>
    /\ LET service == Head(eco.queue)
       IN  IF service \in Range(eco.components) /\ exists
           THEN /\ CanStart(svc[service])
                /\ svc' = [svc EXCEPT ![service] = start_service(svc[service])]
                /\ lastCall' = [op |-> "start", service |-> service,
                                hadFile |-> svc[service].file,
                                readable |-> FALSE, unlinked |-> FALSE]
                /\ startOrder' = Append(startOrder, service)
           ELSE UNCHANGED <<svc, lastCall, startOrder>>
    /\ eco' = [eco EXCEPT !.queue = Tail(eco.queue)]
    /\ UNCHANGED <<stopOrder, outsideEco>>

\* stop_ecosystem(components)
StopEcosystem(impl, given, list) ==
    /\ eco.op = "idle"
    /\ eco.calls < MaxEcoCalls
    /\ LET components == StopComponents(impl, given, list)
       IN  eco' = [op |-> "stopping", impl |-> impl, components |-> components,
                   queue |-> StopIteration(impl, components), calls |-> eco.calls + 1]
    /\ stopOrder' = <<>>
    /\ UNCHANGED <<svc, lastCall, startOrder, outsideEco>>

\* One turn of the loop of stop_ecosystem.
StopNextService(readable, unlinked) ==
    /\ eco.op = "stopping"
    /\ eco.queue # <<>>
    /\ LET service == Head(eco.queue)
       IN  IF service \in Range(eco.components)
           THEN /\ svc' = [svc EXCEPT ![service] = stop_service(svc[service], readable, unlinked)]
                /\ lastCall' = [op |-> "stop", service |-> service,
                                hadFile |-> svc[service].file,
                                readable |-> readable, unlinked |-> unlinked]
                /\ stopOrder' = Append(stopOrder, service)
           ELSE UNCHANGED <<svc, lastCall, stopOrder>>
    /\ eco' = [eco EXCEPT !.queue = Tail(eco.queue)]
    /\ UNCHANGED <<startOrder, outsideEco>>

\* The loop of start_ecosystem or stop_ecosystem is over and the call returns.
EcosystemReturn ==
    /\ eco.op \in {"starting", "stopping"}
    /\ eco.queue = <<>>
    /\ eco' = [EcoIdle EXCEPT !.calls = eco.calls]
    /\ UNCHANGED <<svc, lastCall, startOrder, stopOrder, outsideEco>>

EcoNext ==
    \/ \E impl \in {"manager", "module"}, given \in BOOLEAN, list \in ComponentLists :
           StartEcosystem(impl, given, list)
    \/ \E exists \in BOOLEAN : StartNextService(exists)
    \/ \E impl \in {"manager", "module"}, given \in BOOLEAN, list \in ComponentLists :
           StopEcosystem(impl, given, list)
    \/ \E readable, unlinked \in BOOLEAN : StopNextService(readable, unlinked)
    \/ EcosystemReturn

EcoSpec == Init /\ [][EcoNext]_allVars

(***************************************************************************)
(* run_code_with_debug: the generated code is run once; when it fails, one *)
(* debugging query is sent and the user is asked whether to run the fixed  *)
(* code.  "runner" is OllamaRunner.run_code_with_debug of OllamaRunner.py, *)
(* "script" the one of pylama.py.                                          *)
(***************************************************************************)

Implementations == {"runner", "script"}

\* What the model answers to the debugging query: nothing, prose, prose
\* that contains the word import, or a fenced block of code.
DebugResponses == {"", "prose", "import prose", "fenced"}

\* What the user types at the prompt, letter by letter.
Answers == {<<>>, <<"y">>, <<"Y", "e", "s">>, <<"n">>, <<"t">>, <<"T", "a", "k">>}

\* str.lower() on one letter.
LowerLetter(c) ==
    CASE c = "Y" -> "y"
      [] c = "T" -> "t"
      [] OTHER -> c

\* extract_python_code on a debugging response: the code of a fenced block.
ExtractFixedCode(response) == IF response = "fenced" THEN "code" ELSE ""

\* debug_and_regenerate_code, given the answer of query_ollama.
debug_and_regenerate_code(response) ==
    IF response = "" THEN ""
    ELSE IF ExtractFixedCode(response) # "" THEN ExtractFixedCode(response)
    ELSE IF response = "import prose" THEN response
    ELSE ""

\* user_input.startswith('y') in OllamaRunner.py, startswith('t') in pylama.py,
\* on the lowered input.
Confirms(impl, answer) ==
    /\ answer # <<>>
    /\ LowerLetter(answer[1]) = (IF impl = "runner" THEN "y" ELSE "t")

\* Mutant: a failure of the fixed code starts the debugging again.
after_fixed_run_retry(a, outcome) ==
    IF outcome = "0"
    THEN [a EXCEPT !.pc = "returned", !.fixedRuns = a.fixedRuns + 1,
                   !.fixedOutcome = outcome, !.ret = "False"]
    ELSE [a EXCEPT !.pc = "failed", !.fixedRuns = a.fixedRuns + 1,
                   !.fixedOutcome = outcome]

\* After the fixed code has run, whatever it did: return False.
after_fixed_run(a, outcome) ==
    [a EXCEPT !.pc = "returned", !.fixedRuns = a.fixedRuns + 1,
              !.fixedOutcome = outcome, !.ret = "False"]

\* run_code_with_debug is called: the code file is started.
RunCodeWithDebug(impl) ==
    /\ attempt.pc \in {"idle", "returned"}
    /\ attempt' = [NoAttempt EXCEPT !.pc = "running", !.impl = impl]
    /\ UNCHANGED outsideDebug

\* Popen raises: "Error running code", return False.
PopenRaises ==
    /\ attempt.pc = "running"
    /\ attempt' = [attempt EXCEPT !.pc = "returned", !.returncode = "raised",
                                  !.ret = "False"]
    /\ UNCHANGED outsideDebug

\* communicate(timeout=30) raises TimeoutExpired: the process is killed,
\* return False.
TimeLimitExceeded ==
    /\ attempt.pc = "running"
    /\ attempt' = [attempt EXCEPT !.pc = "returned", !.returncode = "timeout",
                                  !.ret = "False"]
    /\ UNCHANGED outsideDebug

\* The code ends within the limit: exit code 0 returns True, any other goes
\* on to debugging.
CodeExits(rc) ==
    /\ attempt.pc = "running"
    /\ attempt' = IF rc = "0"
                  THEN [attempt EXCEPT !.pc = "returned", !.returncode = rc,
                                       !.ret = "True"]
                  ELSE [attempt EXCEPT !.pc = "failed", !.returncode = rc]
    /\ UNCHANGED outsideDebug

\* debug_and_regenerate_code: one query_ollama call; without fixed code
\* return False, else the fixed code is saved and the user is asked.
DebugAndRegenerate(response) ==
    /\ attempt.pc = "failed"
    /\ LET fixed == debug_and_regenerate_code(response)
       IN  attempt' = [attempt EXCEPT
                         !.queries = attempt.queries + 1,
                         !.debug_response = response,
                         !.debugged_code = fixed,
                         !.pc = IF fixed = "" THEN "returned" ELSE "asking",
                         !.ret = IF fixed = "" THEN "False" ELSE "none"]
    /\ UNCHANGED outsideDebug

\* query_ollama raises (it catches the errors of its requests, not those of
\* building the prompt): caught by the outer handler, return False.
DebugQueryRaises ==
    /\ attempt.pc = "failed"
    /\ attempt' = [attempt EXCEPT !.queries = attempt.queries + 1,
                                  !.debug_response = "raised",
                                  !.pc = "returned", !.ret = "False"]
    /\ UNCHANGED outsideDebug

\* The user answers the prompt: a confirmation goes on to run the fixed
\* code, anything else returns False.
UserAnswers(answer) ==
    /\ attempt.pc = "asking"
    /\ attempt' = IF Confirms(attempt.impl, answer)
                  THEN [attempt EXCEPT !.pc = "confirmed", !.answer = answer]
                  ELSE [attempt EXCEPT !.pc = "returned", !.answer = answer,
                                       !.ret = "False"]
    /\ UNCHANGED outsideDebug

\* input() raises EOFError: caught by the outer handler, return False.
InputRaises ==
    /\ attempt.pc = "asking"
    /\ attempt' = [attempt EXCEPT !.pc = "returned", !.fixedOutcome = "EOFError",
                                  !.ret = "False"]
    /\ UNCHANGED outsideDebug

\* subprocess.run on the fixed code: it exits 0, exits 1 (CalledProcessError
\* in OllamaRunner.py, ignored in pylama.py) or cannot be started.
RunFixedCode(outcome) ==
    /\ attempt.pc = "confirmed"
    /\ attempt' = after_fixed_run(attempt, outcome)
    /\ UNCHANGED outsideDebug

DebugNext ==
    \/ \E impl \in Implementations : RunCodeWithDebug(impl)
    \/ PopenRaises
    \/ TimeLimitExceeded
    \/ \E rc \in {"0", "1", "2"} : CodeExits(rc)
    \/ \E response \in DebugResponses : DebugAndRegenerate(response)
    \/ DebugQueryRaises
    \/ \E answer \in Answers : UserAnswers(answer)
    \/ InputRaises
    \/ \E outcome \in {"0", "1", "raised"} : RunFixedCode(outcome)

DebugSpec == Init /\ [][DebugNext]_allVars

(***************************************************************************)
(* main() of pylama.py: a try block that checks the installation, creates  *)
(* the OllamaRunner, starts the server, queries it, extracts and saves    *)
(* the code, installs what is missing and runs the code; `except           *)
(* Exception` prints the error; `finally` stops the server when the local  *)
(* name ollama is bound.                                                   *)
(***************************************************************************)

\* The steps of the try block that follow the creation of the OllamaRunner.
StepsWithRunner == {"start", "query", "extract", "save", "install", "run"}

\* Leaving the try block: by return, by an exception that `except Exception`
\* prints, or by a KeyboardInterrupt that passes it; `finally` is next.
Leave(m, how) == [m EXCEPT !.pc = "finally", !.path = how, !.left = m.pc]

\* Mutant: an early return leaves main() without the finally block.
stop_ollama_calls_unless_returned(m) ==
    IF m.created /\ m.path \in {"exception", "interrupt", "normal"}
    THEN m.stops + 1 ELSE m.stops

\* The finally block: `if 'ollama' in locals(): ollama.stop_ollama()`.
stop_ollama_calls(m) == IF m.created THEN m.stops + 1 ELSE m.stops

\* main() is called.
ScriptMain ==
    /\ mainrun.pc \in {"idle", "returned"}
    /\ mainrun' = [NoMain EXCEPT !.pc = "version"]
    /\ UNCHANGED outsideMain

\* `ollama --version`: found, a non-zero exit or FileNotFoundError (both
\* return), or another exception.
CheckOllama(found) ==
    /\ mainrun.pc = "version"
    /\ mainrun' = CASE found = "found" -> [mainrun EXCEPT !.pc = "create"]
                    [] found = "raised" -> Leave(mainrun, "exception")
                    [] OTHER -> Leave(mainrun, found)
    /\ UNCHANGED outsideMain

\* ollama = OllamaRunner(): the name is bound only when the constructor
\* returns.
CreateRunner(ok, docker) ==
    /\ mainrun.pc = "create"
    /\ mainrun' = IF ok THEN [mainrun EXCEPT !.pc = "start", !.created = TRUE,
                                             !.use_docker = docker]
                  ELSE Leave(mainrun, "exception")
    /\ UNCHANGED outsideMain

\* ollama.start_ollama(): the container is started, or a server answers
\* already, or `ollama serve` is spawned; RuntimeError when the container or
\* the spawned server does not come up (the spawned process stays).
StartOllama(how) ==
    /\ mainrun.pc = "start"
    /\ mainrun.use_docker => how \in {"container", "failed"}
    /\ ~mainrun.use_docker => how # "container"
    /\ mainrun' = CASE how = "failed" ->
                         [Leave(mainrun, "exception") EXCEPT
                            !.server = IF mainrun.use_docker THEN "none" ELSE "spawned"]
                    [] OTHER -> [mainrun EXCEPT !.pc = "query", !.server = how]
    /\ UNCHANGED outsideMain

\* response = ollama.query_ollama(prompt): an empty response returns.
QueryOllama(response) ==
    /\ mainrun.pc = "query"
    /\ mainrun' = IF response = "" THEN Leave(mainrun, "empty response")
                  ELSE [mainrun EXCEPT !.pc = "extract"]
    /\ UNCHANGED outsideMain

\* code = ollama.extract_python_code(response): no code returns.
ExtractCode(extractedCode) ==
    /\ mainrun.pc = "extract"
    /\ mainrun' = IF extractedCode = "" THEN Leave(mainrun, "no code")
                  ELSE [mainrun EXCEPT !.pc = "save"]
    /\ UNCHANGED outsideMain

\* save_code_to_file, extract_imports, check_dependencies: the file cannot
\* be written, or something is missing, or nothing is.
SaveAndCheck(saved, missing) ==
    /\ mainrun.pc = "save"
    /\ mainrun' = IF ~saved THEN Leave(mainrun, "exception")
                  ELSE IF missing THEN [mainrun EXCEPT !.pc = "install"]
                  ELSE [mainrun EXCEPT !.pc = "run"]
    /\ UNCHANGED outsideMain

\* install_dependencies(missing): False returns.
InstallMissing(ok) ==
    /\ mainrun.pc = "install"
    /\ mainrun' = IF ok THEN [mainrun EXCEPT !.pc = "run"]
                  ELSE Leave(mainrun, "install failure")
    /\ UNCHANGED outsideMain

\* ollama.run_code_with_debug(code_file, prompt, code): the end of the try
\* block, whatever it returns.
RunGeneratedCode ==
    /\ mainrun.pc = "run"
    /\ mainrun' = Leave(mainrun, "normal")
    /\ UNCHANGED outsideMain

\* KeyboardInterrupt in any step: not an Exception, so only `finally` runs.
Interrupted ==
    /\ mainrun.pc \in StepsWithRunner \cup {"version", "create"}
    /\ mainrun' = Leave(mainrun, "interrupt")
    /\ UNCHANGED outsideMain

\* The finally block, then main() ends: by returning, or by the exception
\* that stop_ollama raised or that passed the except clause.
ScriptFinally(stopped_ok) ==
    /\ mainrun.pc = "finally"
    /\ ~mainrun.created => stopped_ok
    /\ mainrun' = [mainrun EXCEPT
                     !.pc = "returned",
                     !.stops = stop_ollama_calls(mainrun),
                     !.ended = IF ~stopped_ok THEN "stop_ollama raised"
                               ELSE IF mainrun.path = "interrupt" THEN "KeyboardInterrupt"
                               ELSE "returned"]
    /\ UNCHANGED outsideMain

ScriptNext ==
    \/ ScriptMain
    \/ \E found \in {"found", "bad exit", "not found", "raised"} : CheckOllama(found)
    \/ \E ok, docker \in BOOLEAN : CreateRunner(ok, docker)
    \/ \E how \in {"container", "running", "spawned", "failed"} : StartOllama(how)
    \/ \E response \in {"", "text"} : QueryOllama(response)
    \/ \E extractedCode \in {"", "code"} : ExtractCode(extractedCode)
    \/ \E saved, missing \in BOOLEAN : SaveAndCheck(saved, missing)
    \/ \E ok \in BOOLEAN : InstallMissing(ok)
    \/ RunGeneratedCode
    \/ Interrupted
    \/ \E stopped_ok \in BOOLEAN : ScriptFinally(stopped_ok)

ScriptSpec == Init /\ [][ScriptNext]_allVars

(***************************************************************************)
(* SandboxManager of sandbox_manager.py, and the three places that read    *)
(* USE_DOCKER: execute_code of pylama/pylama.py, the import of             *)
(* OllamaRunner.py and SandboxManager.from_env.                            *)
(***************************************************************************)

MaxManagerCalls == 2

\* force_docker of run_code and use_docker of get_sandbox: None, True, False.
Forced == {"None", "True", "False"}

\* os.getenv('USE_DOCKER', 'False').lower() in ('true', '1', 't'), at the
\* import of OllamaRunner.py.
ollama_runner_use_docker(env) ==
    Lower(IF env = "unset" THEN "False" ELSE env) \in {"true", "1", "t"}

\* os.environ.get('USE_DOCKER', 'False').lower() in ('true', '1', 't'), in
\* SandboxManager.from_env.
from_env(env) ==
    Lower(IF env = "unset" THEN "False" ELSE env) \in {"true", "1", "t"}

\* SandboxManager.__init__: the DockerSandbox is built only with use_docker.
SandboxManager(u, env) ==
    [built |-> TRUE, use_docker |-> u, docker_sandbox |-> u, env |-> env]

\* The backend run_code and get_sandbox choose:
\* use_docker = self.use_docker if force_docker is None else force_docker;
\* the container if use_docker and self.docker_sandbox, else the local one.
Backend(m, force) ==
    LET use_docker == IF force = "None" THEN m.use_docker ELSE force = "True"
    IN  IF use_docker /\ m.docker_sandbox THEN "docker" ELSE "local"

\* SandboxManager(use_docker=u)
NewSandboxManager(u) ==
    /\ manager' = SandboxManager(u, "none")
    /\ managerRuns' = <<>>
    /\ UNCHANGED <<selection, outsideManager>>

\* SandboxManager.from_env()
FromEnv ==
    /\ manager' = SandboxManager(from_env(environ), environ)
    /\ managerRuns' = <<>>
    /\ selection' = [selection EXCEPT
                       !["from_env"] = [env |-> environ, container |-> from_env(environ)]]
    /\ UNCHANGED outsideManager

\* manager.run_code(code, force_docker=force)
ManagerRunCode(force) ==
    /\ manager.built
    /\ Len(managerRuns) < MaxManagerCalls
    /\ managerRuns' = Append(managerRuns,
                             [op |-> "run_code", force |-> force,
                              backend |-> Backend(manager, force)])
    /\ UNCHANGED <<manager, selection, outsideManager>>

\* manager.get_sandbox(use_docker=force)
GetSandbox(force) ==
    /\ manager.built
    /\ Len(managerRuns) < MaxManagerCalls
    /\ managerRuns' = Append(managerRuns,
                             [op |-> "get_sandbox", force |-> force,
                              backend |-> Backend(manager, force)])
    /\ UNCHANGED <<manager, selection, outsideManager>>

\* OllamaRunner.py is imported: USE_DOCKER is read once, OllamaRunner()
\* takes self.use_docker from it.
ImportOllamaRunner ==
    /\ selection["OllamaRunner"] = NoRead
    /\ selection' = [selection EXCEPT
                       !["OllamaRunner"] = [env |-> environ,
                                            container |-> ollama_runner_use_docker(environ)]]
    /\ UNCHANGED <<manager, managerRuns, outsideManager>>

\* execute_code(code) with use_docker left False: USE_DOCKER decides.
ExecuteCodeReads ==
    /\ selection' = [selection EXCEPT
                       !["execute_code"] = [env |-> environ,
                                            container |-> use_docker_env(environ)]]
    /\ selection'["execute_code"] # selection["execute_code"]
    /\ UNCHANGED <<manager, managerRuns, outsideManager>>

\* USE_DOCKER is set in the environment the program is started in.
SetUseDocker(v) ==
    /\ ~manager.built
    /\ \A r \in Readers : selection[r] = NoRead
    /\ environ # v
    /\ environ' = v
    /\ UNCHANGED <<call, created, runCalls, runResult, returned, outsideExec>>

ManagerNext ==
    \/ \E v \in EnvValues : SetUseDocker(v)
    \/ \E u \in BOOLEAN : NewSandboxManager(u)
    \/ FromEnv
    \/ \E force \in Forced : ManagerRunCode(force)
    \/ \E force \in Forced : GetSandbox(force)
    \/ ImportOllamaRunner
    \/ ExecuteCodeReads

ManagerSpec == Init /\ [][ManagerNext]_allVars

(***************************************************************************)
(* Specification                                                           *)
(***************************************************************************)
\* The steps of PythonSandbox.run_code.
LocalNext ==
    \/ \E imps \in SUBSET Modules, parse \in {"ok", "syntax", "other"}, enc \in BOOLEAN :
          RunCode(imps, parse, enc)
    \/ Analyze
    \/ ParseCheck
    \/ \E outcome \in {"ok", "create_fails", "write_fails"} : MakeTempFile(outcome)
    \/ \E ok \in BOOLEAN : InstallPackage(ok)
    \/ InstallDone
    \/ \E ok \in BOOLEAN : Spawn(ok)
    \/ \E rc \in {"0", "1"}, decodes \in BOOLEAN : ProcessExits(rc, decodes)
    \/ ProcessTimesOut
    \/ Finally

\* The steps of DockerSandbox.execute_code.
DockerNext ==
    \/ \E rt \in {"ok", "no_daemon", "no_cli"} : ExecuteCode(rt)
    \/ DockerInit
    \/ \E outcome \in {"ok", "create_fails", "write_fails"} : DockerMakeTemp(outcome)
    \/ \E started \in BOOLEAN : EnsureContainer(started)
    \/ \E ok \in BOOLEAN : DockerCopy(ok)
    \/ DockerExec
    \/ \E rc \in {"0", "1"}, decodes \in BOOLEAN, logged \in BOOLEAN :
          DockerProcessExits(rc, decodes, logged)
    \/ DockerTimesOut
    \/ DockerCleanup

\* The steps of DependencyManager.install_dependencies.
DepsNext ==
    \/ \E pkgs \in SeqsUpTo(PkgArgs, MaxPkgs) : InstallDependencies(pkgs)
    \/ DepsPrepare
    \/ \E ok \in BOOLEAN : DepsInstall(ok)
    \/ DepsReturn

\* The steps of main of pylama.py.
MainNext ==
    \/ \E imps \in SUBSET Modules : Main(imps)
    \/ MainCheck
    \/ \E ok \in BOOLEAN : MainInstall(ok)
    \/ MainExecute

Next == LocalNext \/ DockerNext \/ DepsNext \/ MainNext

Spec == Init /\ [][Next]_allVars

\* The orchestrator alone, invoked again and again.  A sequential program
\* takes its next step whenever it has one, and the operating system ends or
\* the timeout kills every spawned process: weak fairness of the flow.
FairSpec == Init /\ [][LocalNext]_allVars /\ WF_allVars(LocalNext)

(***************************************************************************)
(* Properties                                                              *)
(***************************************************************************)
Returned == pc = "returned"

Ended == pc \in {"returned", "raised"}

InProgress == pc \notin {"idle", "returned", "raised"}

BackendRun == flow \in {"local", "docker"}

\* C1 (as stated): every result returned by a backend run has success true
\* if and only if the executed process exited with code 0 and no timeout
\* occurred.
C1_SuccessIffExitZeroNoTimeout ==
    (Returned /\ BackendRun) =>
        (result.success <=> (exitCode = "0" /\ raisedIn # "timeout"))

\* C1 (amended): every result returned by a backend run has success true if
\* and only if the executed process exited with code 0 and the run met no
\* exception at all: no timeout, and no error while spawning, decoding the
\* captured output, copying the script or writing the execution log.
C1_SuccessIffExitZeroNoException ==
    (Returned /\ BackendRun) =>
        (result.success <=> (exitCode = "0" /\ raisedIn = "none"))

\* C1 witness: a run whose process exited with code 0 and whose output could
\* not be decoded has returned.
C1_Witness ==
    Returned /\ flow = "local" /\ exitCode = "0" /\ raisedIn = "decode" /\ ~result.success

\* C2: in one run the number of Execute steps never exceeds max_attempts,
\* however many distinct missing modules the executions report.
C2_ExecuteBounded == execCount <= max_attempts

\* C2 witness: a run that reported a missing module while two distinct
\* modules were missing has returned.
C2_Witness ==
    /\ Returned /\ flow = "local"
    /\ result.stderr = "no_module"
    /\ Cardinality(Unimportable(code, registry)) >= 2
    /\ execCount = 1

\* C3 (as stated): a run on code whose every execution fails with a
\* missing-module error for a module that can never be installed performs
\* exactly max_attempts Execute calls and then ends in a failure result.
C3_ExactlyMaxAttempts ==
    (Returned /\ flow = "local" /\ raisedIn = "none"
        /\ "nonexistent_pkg_xyz" \in required_packages(code)) =>
        (execCount = max_attempts /\ ~result.success)

\* C4 (as stated): an Execute step that fails with a missing-module signature
\* for a module not yet attempted, with attempts left, is followed by the
\* install of that module and another execution.  No module has been
\* attempted when the first execution fails and max_attempts > 1, so a
\* missing-module failure is never returned after a single execution.
C4_RetryAfterMissingModule ==
    (Returned /\ flow = "local" /\ result.stderr = "no_module") => execCount >= 2

C7_SyntaxErrorIsFatal ==
    (flow = "local" /\ code.parse = "syntax") =>
        /\ pc \in {"analyze", "parse", "returned"}
        /\ pipCalls = <<>>
        /\ execCount = 0
        /\ proc = "none"
        /\ Returned => /\ ~result.success
                       /\ result.error_type = "SyntaxError"
                       /\ result.stdout = ""

\* C7 witness: a run on a source with a syntax error has returned.
C7_Witness == Returned /\ flow = "local" /\ code.parse = "syntax"

C9_NothingRunsAfterTimeout ==
    (Returned /\ BackendRun /\ raisedIn = "timeout") =>
        (proc = "killed" /\ cproc # "running")

\* C10 (as stated): when a backend run has ended, by success, non-zero exit,
\* timeout or exception, the temporary code file of the run has been removed.
C10_TempFileRemoved ==
    (Ended /\ BackendRun) => tempFile # "exists"

\* C11 (as stated): run_code never raises: whatever fails during analysis,
\* installation, the creation of the temporary file or the spawn, the caller
\* receives a result and no exception leaves run_code.
C11_RunCodeNeverRaises == flow = "local" => pc # "raised"

\* C12 (as stated): every result of the orchestrator with success = false
\* carries an error kind, after a non-zero exit as well as after a parse
\* error, a timeout or an internal exception.
C12_FailureCarriesErrorKind ==
    (Returned /\ flow = "local" /\ ~result.success) => result.error_type # "absent"

\* An install of the invocation failed: a package handed to the package
\* manager is not installed.
InstallFailed == \E i \in 1..Len(pipCalls) : Lower(pipCalls[i]) \notin registry

\* C13 (as stated): when several callers invoke start_container concurrently
\* at most one container ends up running, and every caller, the losers of
\* the race between the running-check and the start included, gets a
\* success result (no docker command having failed for an outside reason,
\* and the container neither stopped nor ended by itself).
C13_ConcurrentStartAllSucceed ==
    /\ containers <= 1
    /\ \A c \in Callers :
          (starter[c].op = "start" /\ starter[c].pc = "returned" /\ ~envFault /\ ~stopped)
              => starter[c].result = "true"

\* The pip processes in progress.
Installing == {c \in Callers : installer[c].pc = "pip"}

\* C14 (as stated): installer invocations are serialized: at most one
\* package-manager install is in progress at any time.
C14_InstallsSerialized == Cardinality(Installing) <= 1

\* C15: start_container called while the container is running returns
\* success without attempting to start another container; any number of
\* calls leaves at most one running container, and exactly one after a
\* successful call as long as it was not stopped and has not exited.
C15_StartIdempotent ==
    /\ containers <= 1
    /\ \A c \in Callers :
          /\ (starter[c].op = "start" /\ starter[c].sawRunning) =>
                 (~starter[c].ran /\ starter[c].pc = "returned" /\ starter[c].result = "true")
          /\ (starter[c].op = "start" /\ starter[c].result = "true" /\ ~stopped) =>
                 containers = 1

\* C15 witness: one caller has started the container, another has then
\* called start_container, found the container running and returned success
\* without a docker run; one container runs.
C15_Witness ==
    /\ containers = 1 /\ ~stopped
    /\ starter["t1"] = [pc |-> "returned", op |-> "start", result |-> "true",
                        sawRunning |-> FALSE, ran |-> TRUE]
    /\ starter["t2"] = [pc |-> "returned", op |-> "start", result |-> "true",
                        sawRunning |-> TRUE, ran |-> FALSE]

\* C16 (as stated): installing a list of missing packages invokes the package
\* manager once per package, never as one batch, and a failed install does
\* not prevent the attempt for a later package: when the installation has
\* returned there were as many invocations as packages, and every package of
\* the list was handed to one.
C16_OncePerPackage ==
    /\ (Returned /\ flow \in {"deps", "main"}) => pipRuns = Len(pipCalls)
    /\ (Returned /\ flow = "deps") => pipCalls = unique_packages
    /\ (Returned /\ flow = "main") => pipCalls = missing_packages

\* C17 (as stated): when the installation of one or more missing packages
\* failed, the run still performs the Execute step on the code.
C17_ExecuteDespiteInstallFailure ==
    (Returned /\ flow \in {"local", "main"} /\ InstallFailed) => execCount >= 1

\* C18 (as stated): when the container backend is requested and no container
\* runtime is reachable, the setup error is raised before any step: the run
\* never gets past the construction of the sandbox, it ends by that error,
\* and the code is not executed.
C18_SetupErrorBeforeAnyStep ==
    (flow = "docker" /\ runtime # "ok") =>
        /\ pc \in {"d_init", "raised"}
        /\ Ended => raisedIn = "setup"
        /\ tempFile = "none"
        /\ execCount = 0

C20_AliasMapping ==
    /\ (flow = "deps" /\ pc \in {"i_install", "returned"} /\ packages # <<>>) =>
          /\ "sklearn" \in Range(packages) =>
                ("scikit-learn" \in Range(unique_packages) /\ "sklearn" \notin Range(unique_packages))
          /\ "PIL" \in Range(packages) =>
                ({"pillow", "Pillow"} \cap Range(unique_packages) # {} /\ "PIL" \notin Range(unique_packages))
          /\ "numpy" \in Range(packages) => "numpy" \in Range(unique_packages)
    /\ flow \in {"deps", "local"} => Range(pipCalls) \cap {"sklearn", "PIL", "Image"} = {}

\* C20 witness: install_dependencies was given sklearn and numpy and has
\* handed scikit-learn and numpy to the package manager.
C20_Witness ==
    /\ Returned /\ flow = "deps"
    /\ packages = <<"sklearn", "numpy">>
    /\ pipCalls = <<"scikit-learn", "numpy">>

\* C21 (as stated): after check_dependencies every module is in exactly one
\* of installed and missing: installed when its mapped package name is in
\* the registry, compared lower-cased, and missing otherwise.
C21_InstalledIffInRegistry ==
    (flow = "main" /\ pc = "m_install") =>
        \A m \in code.imports :
            /\ (m \in installed) <=> (Lower(package_mapping(m)) \in registry)
            /\ (package_mapping(m) \in Range(missing_packages)) <=> (m \notin installed)

\* C21 (amended): after check_dependencies every module is in exactly one of
\* installed and missing: installed when the module can be imported (as a
\* standard-library module can, which no registry lists) or its mapped
\* package name is in the registry, compared lower-cased, and missing, under
\* its mapped name, otherwise.
C21_InstalledIffImportableOrInRegistry ==
    (flow = "main" /\ pc = "m_install") =>
        \A m \in code.imports :
            /\ (m \in installed) <=>
                   (m \in StandardLibrary \/ Lower(package_mapping(m)) \in registry)
            /\ (package_mapping(m) \in Range(missing_packages)) <=> (m \notin installed)

\* C21 witness: check_dependencies has found os installed, with nothing in
\* the registry, and sklearn missing as scikit-learn.
C21_Witness ==
    /\ flow = "main" /\ pc = "m_install"
    /\ code.imports = {"os", "sklearn"}
    /\ registry = {}
    /\ installed = {"os"}
    /\ missing_packages = <<"scikit-learn">>

\* C29: in every run of the orchestrator the steps occur in the order
\* Analyze, Install, Execute: nothing is handed to the package manager
\* before the analysis has finished, and the code is not executed before
\* every initially missing package has had its install attempt.
C29_StepOrder ==
    flow = "local" =>
        /\ pc = "analyze" => (pipCalls = <<>> /\ execCount = 0 /\ proc = "none")
        /\ pipCalls # <<>> => pc \notin {"analyze", "parse", "mktemp"}
        /\ (execCount > 0 \/ proc # "none") =>
               (pipCalls = missing_packages /\ Len(pipOutcomes) = Len(missing_packages))

\* C29 witness: a run with two missing packages has attempted both installs
\* and then executed the code.
C29_Witness ==
    /\ Returned /\ flow = "local"
    /\ missing_packages = <<"scikit-learn", "nonexistent_pkg_xyz">>
    /\ pipCalls = missing_packages
    /\ execCount = 1

\* C30: the value of install_dependencies is true if and only if the install
\* of every package of the deduplicated list succeeded (true for an empty
\* list); one failed package makes it false even when a later one succeeds.
C30_AggregateIsAll ==
    (Returned /\ flow = "deps") =>
        /\ result.kind = "bool"
        /\ Len(pipOutcomes) = Len(unique_packages)
        /\ result.success <=> (\A i \in 1..Len(pipOutcomes) : pipOutcomes[i])

\* C30 witness: install_dependencies has returned false after a failed
\* install that was followed by a successful one.
C30_Witness ==
    /\ Returned /\ flow = "deps"
    /\ pipOutcomes = <<FALSE, TRUE>>
    /\ ~result.success

----------------------------------------------------------------------------
\* The analyzers.

\* The names the analyzers may report.
ModuleNames == {"os", "sqlite3", "sklearn", "foo", "y"}

\* The top-level names of the import statements of source: the first
\* component of every module an "import" names, with or without alias, and
\* of the module a "from" names, nothing for a "from" that names no module.
TopLevelNames ==
    {n \in ModuleNames :
        \E i \in DOMAIN source :
            \/ /\ source[i].kind = "import"
               /\ \E k \in DOMAIN source[i].names : source[i].names[k].name[1] = n
            \/ /\ source[i].kind = "from"
               /\ source[i].module # <<>>
               /\ source[i].module[1] = n}

\* C22: the analysis of a source that does not parse carries an error and no
\* import at all, whatever import statements precede the error.
C22_InvalidSourceNoImports ==
    \A a \in Analyzers :
        analysis[a].done /\ Invalid(source) =>
            /\ analysis[a].error
            /\ DOMAIN analysis[a].imports = {}
            /\ analysis[a].required_packages = <<>>

\* An import statement precedes the error and the analysis has returned.
C22_Witness ==
    /\ Len(source) = 2
    /\ source[1].kind = "import"
    /\ source[2].kind = "invalid"
    /\ analysis["a1"].done
    /\ analysis["a1"].error

\* C23: for a source that parses, the names reported are exactly the
\* top-level names of its import statements, by analyze_code and by
\* extract_imports alike.
C23_KeysAreTopLevelNames ==
    ~Invalid(source) =>
        /\ \A a \in Analyzers :
               analysis[a].done => DOMAIN analysis[a].imports = TopLevelNames
        /\ extracted.done => extracted.modules = TopLevelNames

\* C24: two analyzer instances give the same analysis of the same source,
\* whatever the host had loaded when each was built.
C24_ClassificationDeterministic ==
    \A a, b \in Analyzers :
        analysis[a].done /\ analysis[b].done => analysis[a] = analysis[b]

----------------------------------------------------------------------------
\* execute_code.

\* The values of USE_DOCKER that say true.
TrueValues == {"true", "True", "TRUE", "1", "yes", "YES"}

\* C25: execute_code makes exactly one sandbox, the container one iff
\* use_docker is true or USE_DOCKER says true, calls its run exactly once with
\* the code it was given and returns what run returned.
C25_OneBackendOneRun ==
    /\ Len(created) <= 1
    /\ Len(runCalls) <= 1
    /\ call.pc = "returned" =>
           /\ Len(created) = 1
           /\ created[1] = "DockerSandbox" <=> (call.use_docker \/ call.env \in TrueValues)
           /\ created[1] \in {"DockerSandbox", "PythonSandbox"}
           /\ Len(runCalls) = 1
           /\ runCalls[1] = [sandbox |-> created[1], code |-> call.code]
           /\ returned = runResult
           /\ returned \in RunResults

\* The argument says local, the environment says container, and the call
\* has returned.
C25_Witness ==
    /\ call.pc = "returned"
    /\ ~call.use_docker
    /\ call.env = "True"
    /\ created = <<"DockerSandbox">>
    /\ returned.error = "NameError"

----------------------------------------------------------------------------
\* start_ollama and stop_ollama.

\* stop_ollama runs in this step.
StopStep == StopOllamaLocal \/ \E ok \in BOOLEAN : StopOllamaDocker(ok)

\* start_ollama runs outside Docker in this step.
StartStep == \E ok \in BOOLEAN : StartOllamaLocal(ok)

\* C26: stop_ollama leaves a server, or in Docker mode a container, that
\* this runner did not start running, and start_ollama spawns no process
\* when the server already answers.
C26_StopsOnlyOwn ==
    [][ /\ StopStep /\ server = "external" => server' = "external"
        /\ StopStep /\ container = "external" => container' = "external"
        /\ StartStep /\ server # "down" => spawned' = spawned
      ]_allVars

----------------------------------------------------------------------------
\* interactive_mode.

\* The commands the help of interactive_mode lists, with or without a name
\* after "set model" and "set template".
ListedCommand(words) ==
    \/ LowerWords(words) \in
           { <<"exit">>, <<"quit">>, <<"help">>, <<"models">>, <<"list">>,
             <<"set", "model">>, <<"set", "template">>, <<"templates">> }
    \/ StartsWith(words, <<"set", "model">>)
    \/ StartsWith(words, <<"set", "template">>)

\* C27: a non-empty input that is not a listed command is handed to the
\* code generation as its prompt.
C27_OtherInputIsPrompt ==
    user_input # <<>> /\ ~ListedCommand(user_input) => user_input \in prompts

----------------------------------------------------------------------------
\* run_diagnostic.

\* The sandbox ran the code of an example and reported success.
ExecutionSucceeded(i) ==
    \E k \in DOMAIN sandboxRuns : sandboxRuns[k].example = i /\ sandboxRuns[k].success

\* C28: run_diagnostic processes each example exactly once, in order, and
\* returns 0 iff the sandbox execution of every example succeeded, 1 otherwise.
C28_ZeroIffAllSucceeded ==
    diag.pc = "done" =>
        /\ processed = [i \in 1..diag.n |-> i]
        /\ status \in {"0", "1"}
        /\ status = "0" <=> \A i \in 1..diag.n : ExecutionSucceeded(i)

----------------------------------------------------------------------------
\* The ecosystem.

\* The place of a service in the start order.
Rank(s) == CHOOSE i \in DOMAIN service_order : service_order[i] = s

\* C31: start_ecosystem starts the selected services in the order pybox,
\* pyllm, shellama, apilama, pylama, weblama and stop_ecosystem stops them in
\* the reverse order, whatever the order of the caller's list.
C31_ServiceOrder ==
    /\ \A i, j \in DOMAIN startOrder :
           i < j => Rank(startOrder[i]) < Rank(startOrder[j])
    /\ \A i, j \in DOMAIN stopOrder :
           i < j => Rank(stopOrder[i]) > Rank(stopOrder[j])

C35_EverySpawnedProcessSignalled ==
    [][ \A s \in Services, readable, unlinked \in BOOLEAN :
            StopService(s, readable, unlinked) =>
                svc'[s].orphans = 0 /\ svc'[s].cur # "running"
      ]_allVars

\* The letters that confirm the run of the fixed code, per implementation.
Yes(impl) == IF impl = "runner" THEN {"y", "Y"} ELSE {"t", "T"}

\* C33: one run_code_with_debug call sends at most one regeneration query and
\* runs the regenerated code at most once, only after the user confirmed;
\* a failure of the regenerated code starts no other regeneration; and the
\* call returns True only when the original code exited 0 within the limit.
C33_OneRegeneration ==
    /\ attempt.queries <= 1
    /\ attempt.fixedRuns <= 1
    /\ attempt.fixedRuns = 1 =>
          /\ attempt.queries = 1
          /\ attempt.answer # <<>>
          /\ attempt.answer[1] \in Yes(attempt.impl)
    /\ attempt.fixedRuns = 1 /\ attempt.fixedOutcome # "0" =>
          attempt.pc = "returned" /\ attempt.ret = "False"
    /\ attempt.ret = "True" =>
          attempt.returncode = "0" /\ attempt.queries = 0 /\ attempt.fixedRuns = 0

\* The regenerated code was run after a confirmation, failed, and the call
\* returned False with one query sent.
C33_Witness ==
    /\ attempt.pc = "returned"
    /\ attempt.returncode = "1"
    /\ attempt.queries = 1
    /\ attempt.fixedRuns = 1
    /\ attempt.fixedOutcome = "1"
    /\ attempt.ret = "False"

\* C34: once the OllamaRunner exists, stop_ollama is called exactly once
\* before main() ends, on every path (empty response, no code, install
\* failure, exception, normal end); it is not called while the try block
\* runs, and not called without an OllamaRunner.
C34_StopOllamaExactlyOnce ==
    /\ mainrun.pc = "returned" /\ mainrun.created => mainrun.stops = 1
    /\ mainrun.pc # "returned" => mainrun.stops = 0
    /\ ~mainrun.created => mainrun.stops = 0

\* main() has returned after an installation failure, the server stopped
\* once.
C34_Witness ==
    /\ mainrun.pc = "returned"
    /\ mainrun.created
    /\ mainrun.path = "install failure"
    /\ mainrun.stops = 1

\* C36: a run_code call with force_docker=True never runs on the local
\* backend, whatever use_docker the manager was built with.
C36_ForcedDockerNeverLocal ==
    \A i \in DOMAIN managerRuns :
        managerRuns[i].op = "run_code" /\ managerRuns[i].force = "True"
            => managerRuns[i].backend = "docker"

\* C37: two readers of USE_DOCKER that read the same value both select the
\* container or both do not.
C37_ReadersAgree ==
    \A r1, r2 \in Readers :
        selection[r1] # NoRead /\ selection[r2] # NoRead
        /\ selection[r1].env = selection[r2].env
            => selection[r1].container = selection[r2].container

\* C38: in interactive_mode the current model is always one of get_models()
\* and the current template one of the seven known templates; 'set model
\* <name>' and 'set template <name>' with an unknown name leave the value as
\* it was; and the loop ends only by exit, quit or an interrupt.
C38_SessionValues ==
    [][ /\ session.model \in get_models /\ session'.model \in get_models
        /\ session.template \in templates /\ session'.template \in templates
        /\ Cardinality(templates) = 7
        /\ session.pc = "prompt" /\ handled' = "set model <name>"
           /\ user_input'[3] \notin get_models
              => session' = session
        /\ session.pc = "prompt" /\ handled' = "set template <name>"
           /\ user_input'[3] \notin templates
              => session' = session
        /\ session.pc = "prompt" /\ session'.pc # "prompt"
              => \/ LowerWords(user_input') \in {<<"exit">>, <<"quit">>}
                 \/ handled' = "KeyboardInterrupt"
      ]_allVars

\* 'set model nosuch' was typed after the model had been changed to
\* codellama, which is still the model, and the loop goes on.
C38_Witness ==
    /\ session.pc = "prompt"
    /\ handled = "set model <name>"
    /\ user_input = <<"set", "model", "nosuch">>
    /\ session.model = "codellama"

\* C39: in every result of analyze_code the lists standard_library,
\* third_party and unknown are pairwise disjoint, together they hold exactly
\* the keys of imports, and required_packages is third_party followed by
\* unknown; in the result of a source that does not parse all five are empty.
C39_CategoriesPartitionImports ==
    \A a \in Analyzers :
        analysis[a].done =>
            LET r == analysis[a]
            IN  /\ Range(r.standard_library) \cap Range(r.third_party) = {}
                /\ Range(r.standard_library) \cap Range(r.unknown) = {}
                /\ Range(r.third_party) \cap Range(r.unknown) = {}
                /\ Range(r.standard_library) \cup Range(r.third_party)
                       \cup Range(r.unknown) = DOMAIN r.imports
                /\ r.required_packages = r.third_party \o r.unknown
                /\ r.error =>
                       /\ DOMAIN r.imports = {}
                       /\ r.standard_library = <<>>
                       /\ r.third_party = <<>>
                       /\ r.unknown = <<>>
                       /\ r.required_packages = <<>>

\* An analysis with a name in each of the three lists.
C39_Witness ==
    /\ analysis["a1"].done
    /\ ~analysis["a1"].error
    /\ analysis["a1"].standard_library = <<"os">>
    /\ analysis["a1"].third_party = <<"sqlite3">>
    /\ analysis["a1"].unknown = <<"foo">>
    /\ analysis["a1"].required_packages = <<"sqlite3", "foo">>

====
